---------------------------- MODULE Spec2Model ----------------------------
(***************************************************************************)
(* A model of the go-socks5 server: the per-connection driver              *)
(* (Server.ServeConn, Server.authenticate and the two built-in             *)
(* authenticators), the BIND handler (doBind), the UDP ASSOCIATE handler   *)
(* (doAssociate, readFromSrc, handleDatagram, readFromDst) and the UDP     *)
(* datagram codec (NewDatagram, Datagram.toBytes, NewDatagramFromByte,     *)
(* Datagram.Address).                                                      *)
(*                                                                         *)
(* Bytes are naturals in 0..255, byte strings are sequences of bytes.      *)
(* Go slices are 0-based and half-open; Slice(s, lo, hi) is s[lo:hi].      *)
(*                                                                         *)
(* Three specifications share the variables:                               *)
(*   Spec / FairSpec : one accepted TCP connection served by ServeConn     *)
(*   UdpSpec         : the relay phase of one UDP association              *)
(*   CodecSpec       : the datagram codec applied to bounded inputs        *)
(* JoinFairSpec and UdpFairSpec are Spec and UdpSpec with the fairness of  *)
(* the tasks whose sockets have been closed.                               *)
(***************************************************************************)
EXTENDS Integers, Sequences, FiniteSets, TLC

VARIABLES
    \* ---- server (socks5.go: Server, Config) ----
    config,        \* the Config given to New: AuthMethods, Credentials, Rules
    authMethods,   \* Server.authMethods: method code -> authenticator
    rules,         \* Config.Rules after New, a PermitCommand
    allowlist,     \* Server.isIPAllowed: allow-all, or the list given to SetIPAllowlist
    \* ---- one connection served by ServeConn ----
    pc,            \* position of the connection task
    peerIP,        \* conn.RemoteAddr() IP
    connOpen,      \* the control connection is open on the server side
    peerClosed,    \* the client has closed its end of the control connection
    readAny,       \* the server has read at least one byte from the connection
    wire,          \* frames written to the control connection, in order
    wfail,         \* a write to the control connection has failed
    methods,       \* authenticate: the methods read by readMethods
    auth,          \* authenticate's progress and result: [state, sel, ...]
    request,       \* the parsed Request (or NoRequest)
    dispatched,    \* the command handler that was dispatched ("none" if none)
    \* ---- BIND handler (doBind) ----
    listener,      \* "none" | "open" | "closed"; the ephemeral TCP listener
    lport,         \* its port
    callbacks,     \* BindCallBack as doBind found it: [set, calls: the addresses passed]
    accepted,      \* accepted inbound connections: sequence of [ip, port]
    tcpConn,       \* "none" | "open" | "closed": the accepted connection
    copy,          \* the two proxy tasks: 1 client->peer, 2 peer->client
    errCh,         \* the error-join channel (capacity 2)
    joined,        \* results the handler has received from errCh
    \* ---- UDP ASSOCIATE handler ----
    udp,           \* "none" | "open" | "closed": the relay UDP socket
    drain,         \* "none" | "running" | "done": the io.Copy(io.Discard, conn) task
    peers,         \* UdpAssociate.m: key -> id of the UdpPeer
    flows,         \* UdpPeer objects ever created: id -> UdpPeer, with its dst socket
    rtask,         \* reverse-path tasks (readFromDst): id -> "running" | "done"
    nDgram,        \* datagrams received by the relay loop
    sent,          \* datagrams sent to clients: sequence of [to, bytes, by]
    rcvd,          \* datagrams the relay loop received, with how each was served
    heap,          \* buffers obtained from the allocator: buffer -> times freed
    held,          \* the `datagram` local of the relay loop and of each readFromDst
    \* ---- codec specification ----
    cstage,        \* "idle" | "args" | "built" | "encoded" | "raw" | "parsed"
    cargs,         \* inputs of NewDatagram
    cdgram,        \* the datagram built by NewDatagram
    cbuf,          \* the buffer handed to NewDatagramFromByte
    cres           \* its result

connVars   == <<pc, peerIP, connOpen, peerClosed, readAny, wire, wfail, methods,
                auth, request, dispatched>>
serverVars == <<config, authMethods, rules, allowlist>>
bindVars   == <<listener, lport, callbacks, accepted, tcpConn, copy, errCh, joined>>
udpLog     == <<rcvd, heap, held>>
udpVars    == <<udp, drain, peers, flows, rtask, nDgram, sent, udpLog>>
codecVars  == <<cstage, cargs, cdgram, cbuf, cres>>
vars       == <<serverVars, connVars, bindVars, udpVars, codecVars>>

---------------------------------------------------------------------------
(* Bounds of the model *)

MaxMethods == 2      \* longest client method list
MaxName    == 2      \* longest domain name in codec inputs
MaxData    == 2      \* longest DATA in codec inputs
MaxDgram   == 1      \* datagrams the relay loop receives
MaxReply   == 1      \* payloads the remote endpoints return
MaxRelay   == 1      \* chunks each copy task relays
MaxAccept  == 2      \* connections the BIND listener returns from Accept

---------------------------------------------------------------------------
(* Wire constants *)

socks5Version   == 5
NoAuth          == 0
noAcceptable    == 255
UserPassAuth    == 2
userAuthVersion == 1
authSuccess     == 0
authFailure     == 1

ipv4Address == 1
fqdnAddress == 3
ipv6Address == 4

ConnectCommand   == 1
BindCommand      == 2
AssociateCommand == 3

successReply         == 0
serverFailure        == 1
ruleFailure          == 2
networkUnreachable   == 3
hostUnreachable      == 4
connectionRefused    == 5
addrTypeNotSupported == 8

BufSize == 65536     \* bs := make([]byte, 65536)

---------------------------------------------------------------------------
(* Byte-string helpers *)

Slice(s, lo, hi) == SubSeq(s, lo + 1, hi)

\* A byte string of length n, all `fill` except byte v at position p (1-based).
Mark(n, fill, p, v) == [i \in 1..n |-> IF i = p THEN v ELSE fill]

---------------------------------------------------------------------------
(* The datagram codec (datagram.go) *)

ParseErr(msg) == [ok |-> FALSE, err |-> msg]

\* The ATYP switch of NewDatagramFromByte: the address slice and needLen after it.
ParseAddr(bs, aTyp) ==
    LET dataLen == Len(bs) IN
    CASE aTyp = ipv4Address ->
           IF dataLen < 4 + 4 THEN [ok |-> FALSE]
           ELSE [ok |-> TRUE, needLen |-> 8, dstAddr |-> Slice(bs, 4, 8)]
      [] aTyp = ipv6Address ->
           IF dataLen < 4 + 16 THEN [ok |-> FALSE]
           ELSE [ok |-> TRUE, needLen |-> 20, dstAddr |-> Slice(bs, 4, 20)]
      [] aTyp = fqdnAddress ->
           IF dataLen < 4 + 1 THEN [ok |-> FALSE]
           ELSE LET domainLen == bs[5] IN
                IF domainLen = 0 THEN [ok |-> FALSE]
                ELSE IF dataLen < 5 + domainLen THEN [ok |-> FALSE]
                ELSE [ok |-> TRUE, needLen |-> 5 + domainLen,
                      dstAddr |-> Slice(bs, 5, 5 + domainLen)]
      [] OTHER -> [ok |-> FALSE]

\* Mutant of PortIsZero: a port is rejected as soon as its first byte is zero.
PortIsZero_hi(dstPort) == dstPort[1] = 0

\* if dstPort[0] == 0 && dstPort[1] == 0
PortIsZero(dstPort) == dstPort[1] = 0 /\ dstPort[2] = 0

\* datagram.DstAddr as NewDatagramFromByte stores it: the bytes of the address
\* slice, which for a domain name excludes the length byte.
ParsedAddr(bs, aTyp, a) == a.dstAddr

NewDatagramFromByte(bs) ==
    LET dataLen == Len(bs) IN
    IF dataLen <= 4 THEN ParseErr("Datagram Illegal")
    ELSE
      LET frag == bs[3]
          aTyp == bs[4]
      IN
      IF frag # 0 THEN ParseErr("Datagram Not Support Slice Transmission")
      ELSE
        LET a == ParseAddr(bs, aTyp) IN
        IF ~a.ok THEN ParseErr("Datagram Illegal")
        ELSE
          LET needLen == a.needLen + 2 IN
          IF dataLen < needLen THEN ParseErr("Datagram Illegal")
          ELSE
            LET dstPort == Slice(bs, needLen - 2, needLen) IN
            IF PortIsZero(dstPort) THEN ParseErr("Datagram Illegal")
            ELSE IF Len(Slice(bs, needLen, dataLen)) = 0
                 THEN ParseErr("Datagram Has No Data")
            ELSE [ok |-> TRUE,
                  d  |-> [Rsv     |-> Slice(bs, 0, 2),
                          Frag    |-> frag,
                          ATyp    |-> aTyp,
                          DstAddr |-> ParsedAddr(bs, aTyp, a),
                          DstPort |-> dstPort,
                          Data    |-> Slice(bs, needLen, dataLen)]]

NewDatagram(aTyp, dstAddr, dstPort, data) ==
    LET addr == IF aTyp = fqdnAddress THEN <<Len(dstAddr) % 256>> \o dstAddr
                ELSE dstAddr
    IN [Rsv     |-> <<0, 0>>,
        Frag    |-> 0,
        ATyp    |-> aTyp,
        DstAddr |-> addr,
        DstPort |-> dstPort,
        Data    |-> data]

\* toBytes(buf) for a buffer of bufLen bytes: the count returned and buf[:n].
toBytes(d, bufLen) ==
    LET totalLen == 2 + 1 + 1 + Len(d.DstAddr) + Len(d.DstPort) + Len(d.Data) IN
    IF totalLen > bufLen THEN [n |-> -1, bytes |-> <<>>]
    ELSE [n     |-> totalLen,
          bytes |-> d.Rsv \o <<d.Frag, d.ATyp>> \o d.DstAddr \o d.DstPort \o d.Data]

\* net.IP(b).String(), as the bytes of the address it prints: a 16-byte
\* IPv4-mapped address (::ffff:a.b.c.d) prints as the IPv4 address a.b.c.d.
IPString(b) ==
    IF Len(b) = 16 /\ SubSeq(b, 1, 10) = [i \in 1..10 |-> 0] /\ b[11] = 255 /\ b[12] = 255
    THEN SubSeq(b, 13, 16)
    ELSE b

\* Datagram.Address(): net.JoinHostPort(host, port) as the pair <<host, port>>;
\* an IP host is tagged with its bytes, a domain host is DstAddr[1:].
Address(d) ==
    LET s == IF d.ATyp = fqdnAddress THEN <<"name", Tail(d.DstAddr)>>
             ELSE <<"ip", IPString(d.DstAddr)>>
        p == d.DstPort[1] * 256 + d.DstPort[2]
    IN <<s, p>>

---------------------------------------------------------------------------
(* Values of the connection, BIND and ASSOCIATE variables before a          *)
(* connection is accepted                                                   *)

NoRequest == [cmd |-> 0, err |-> "none"]
AllowAll == [all |-> TRUE, ips |-> {}]
NoAuthResult == [state |-> "none"]

ConnIdle ==
    /\ pc = "idle" /\ peerIP = "none" /\ connOpen = FALSE /\ peerClosed = FALSE
    /\ readAny = FALSE /\ wire = <<>> /\ wfail = FALSE /\ methods = <<>>
    /\ auth = NoAuthResult /\ request = NoRequest /\ dispatched = "none"

\* BindCallBack is nil and was not invoked.
NoCallBack == [set |-> FALSE, calls |-> <<>>]

BindIdle ==
    /\ listener = "none" /\ lport = 0 /\ callbacks = NoCallBack /\ accepted = <<>>
    /\ tcpConn = "none" /\ copy = [t \in 1..2 |-> "none"]
    /\ errCh = <<>> /\ joined = <<>>

\* No task holds a datagram: the relay loop's local and one per reverse task.
NoneHeld == [src |-> 0, dst |-> <<>>]

UdpIdle ==
    /\ udp = "none" /\ drain = "none" /\ peers = <<>> /\ flows = <<>>
    /\ rtask = <<>> /\ nDgram = 0 /\ sent = <<>>
    /\ rcvd = <<>> /\ heap = <<>> /\ held = NoneHeld

CodecIdle ==
    /\ cstage = "idle" /\ cargs = <<>> /\ cdgram = <<>> /\ cbuf = <<>> /\ cres = <<>>

---------------------------------------------------------------------------
(* Server construction (socks5.go: New, SetIPAllowlist; credentials, rules) *)

Nil == "nil"

\* An absent credential store, an absent address.
NoStore == [present |-> FALSE]
NoAddr  == [present |-> FALSE]
StoreOf(s) == [present |-> TRUE, store |-> s]

UserA == <<97>>
UserB == <<98>>
PassX == <<120>>

\* StaticCredentials: a map from user to password.
Store1 == [u \in {UserA} |-> PassX]
Store2 == [u \in {UserA, UserB} |-> IF u = UserA THEN PassX ELSE <<>>]

\* Mutant of Valid: any known user is accepted, whatever the password.
Valid_userOnly(s, user, password) == user \in DOMAIN s

\* StaticCredentials.Valid
Valid(s, user, password) ==
    IF user \notin DOMAIN s THEN FALSE ELSE password = s[user]

NoAuthAuthenticator == [code |-> NoAuth]
UserPassAuthenticator(store) == [code |-> UserPassAuth, Credentials |-> store]

\* PermitCommand rule sets.
PermitCommand(c, b, a) == [EnableConnect |-> c, EnableBind |-> b, EnableAssociate |-> a]
PermitAll  == PermitCommand(TRUE, TRUE, TRUE)
PermitNone == PermitCommand(FALSE, FALSE, FALSE)

\* Config.AuthMethods and Config.Credentials the server is built from.
AuthConfigs ==
    {[AuthMethods |-> <<>>, Credentials |-> NoStore],
     [AuthMethods |-> <<>>, Credentials |-> StoreOf(Store1)],
     [AuthMethods |-> <<UserPassAuthenticator(Store2)>>, Credentials |-> NoStore],
     [AuthMethods |-> <<NoAuthAuthenticator, UserPassAuthenticator(Store1)>>,
      Credentials |-> NoStore],
     [AuthMethods |-> <<NoAuthAuthenticator>>, Credentials |-> StoreOf(Store1)],
     [AuthMethods |-> <<UserPassAuthenticator(Store1), UserPassAuthenticator(Store2)>>,
      Credentials |-> NoStore]}

\* Config.Rules the server is built from: nil, or a PermitCommand.
RuleConfigs ==
    {[present |-> FALSE]} \cup
    {[present |-> TRUE, set |-> p] :
        p \in {PermitNone, PermitCommand(TRUE, FALSE, FALSE),
                PermitCommand(FALSE, TRUE, FALSE)}}

\* Config values handed to New.
Configs ==
    {[AuthMethods |-> a.AuthMethods, Credentials |-> a.Credentials, Rules |-> r] :
        a \in AuthConfigs, r \in RuleConfigs}

\* The Config of a server with every default: no credentials, no rules.
DefaultConfig ==
    [AuthMethods |-> <<>>, Credentials |-> NoStore, Rules |-> [present |-> FALSE]]

\* Mutant of DefaultedAuthMethods: the default is no-auth, whatever Credentials is.
DefaultedAuthMethods_noAuth(conf) ==
    IF Len(conf.AuthMethods) = 0 THEN <<NoAuthAuthenticator>> ELSE conf.AuthMethods

\* New: conf.AuthMethods after the default is applied.
DefaultedAuthMethods(conf) ==
    IF Len(conf.AuthMethods) = 0
    THEN IF conf.Credentials.present
         THEN <<UserPassAuthenticator(conf.Credentials.store)>>
         ELSE <<NoAuthAuthenticator>>
    ELSE conf.AuthMethods

\* New: server.authMethods[a.GetCode()] = a for each a, in order.
New(conf) ==
    LET l == DefaultedAuthMethods(conf)
        codes == {l[i].code : i \in 1..Len(l)}
        last(c) == CHOOSE i \in 1..Len(l) :
                      /\ l[i].code = c
                      /\ \A j \in 1..Len(l) : l[j].code = c => j <= i
    IN [c \in codes |-> l[last(c)]]

\* New 308-311: conf.Rules after the default is applied.
DefaultedRules(conf) == IF conf.Rules.present THEN conf.Rules.set ELSE PermitAll

\* Mutant of Allow: the three commands are allowed whatever the flags are.
Allow_known(p, ctx, cmd) ==
    [ctx |-> ctx, ok |-> cmd \in {ConnectCommand, BindCommand, AssociateCommand}]

\* Mutant of Allow: ASSOCIATE is answered with the flag of BIND.
Allow_associateAsBind(p, ctx, cmd) ==
    [ctx |-> ctx,
     ok  |-> CASE cmd = ConnectCommand   -> p.EnableConnect
               [] cmd = BindCommand      -> p.EnableBind
               [] cmd = AssociateCommand -> p.EnableBind
               [] OTHER                  -> FALSE]

\* PermitCommand.Allow(ctx, req): the context and the verdict it returns.
Allow(p, ctx, cmd) ==
    [ctx |-> ctx,
     ok  |-> CASE cmd = ConnectCommand   -> p.EnableConnect
               [] cmd = BindCommand      -> p.EnableBind
               [] cmd = AssociateCommand -> p.EnableAssociate
               [] OTHER                  -> FALSE]

PeerIPs    == {"10.0.0.1", "10.0.0.2"}
Allowlists == {{}, {"10.0.0.1"}}

\* Mutant of isIPAllowed: the check is skipped.
isIPAllowed_open(ip) == TRUE

\* Mutant of isIPAllowed: an empty list admits every peer.
isIPAllowed_emptyOpen(ip) ==
    allowlist.all \/ allowlist.ips = {} \/ ip \in allowlist.ips

\* s.isIPAllowed(ip): allow-all until SetIPAllowlist, then membership in the list.
isIPAllowed(ip) == allowlist.all \/ ip \in allowlist.ips

Init ==
    /\ config \in Configs
    /\ authMethods = New(config)
    /\ rules = DefaultedRules(config)
    /\ allowlist = AllowAll
    /\ ConnIdle /\ BindIdle /\ UdpIdle /\ CodecIdle

\* Server.SetIPAllowlist(allowedIPs)
SetIPAllowlist(l) ==
    /\ pc = "idle"
    /\ allowlist' = [all |-> FALSE, ips |-> l]
    /\ UNCHANGED <<config, authMethods, rules, connVars, bindVars, udpVars,
                   codecVars>>

---------------------------------------------------------------------------
(* The control connection: frames written and ServeConn's return            *)

Frame(kind, bytes) == [kind |-> kind, bytes |-> bytes]

Port2(p) == <<p \div 256, p % 256>>

\* sendReply's frame: [VER, REP, RSV, ATYP, ADDR, PORT]; a nil address is
\* encoded as the zero IPv4 address and port 0.
ReplyFrame(rep, addr) ==
    IF ~addr.present
    THEN Frame("reply", <<socks5Version, rep, 0, ipv4Address, 0, 0, 0, 0, 0, 0>>)
    ELSE Frame("reply", <<socks5Version, rep, 0, ipv4Address>> \o addr.IP \o Port2(addr.Port))

\* The wire after a Write of frame f that succeeded (ok) or failed.
Written(f, ok) == IF ok THEN Append(wire, f) ELSE wire

\* defer conn.Close() and everything a handler's defers close.
CloseAllOf(st) == IF st = "open" THEN "closed" ELSE st

\* Mutant of Return: ServeConn returns without closing the connection.
Return_open ==
    /\ pc' = "closed"
    /\ connOpen' = connOpen

\* ServeConn returns: the deferred conn.Close() runs.
Return ==
    /\ pc' = "closed"
    /\ connOpen' = FALSE

---------------------------------------------------------------------------
(* ServeConn up to the request (socks5.go 397-446, auth.go)                 *)

\* Serve: conn, err := l.Accept(); go s.ServeConn(conn)
Accept(ip) ==
    /\ pc = "idle"
    /\ pc' = "accepted"
    /\ peerIP' = ip
    /\ connOpen' = TRUE
    /\ UNCHANGED <<serverVars, peerClosed, readAny, wire, wfail, methods, auth,
                   request, dispatched, bindVars, udpVars, codecVars>>

\* ServeConn 401-413: the allowlist check, before anything is read.
CheckAllowlist ==
    /\ pc = "accepted"
    /\ IF isIPAllowed(peerIP)
       THEN pc' = "version" /\ connOpen' = connOpen
       ELSE Return
    /\ UNCHANGED <<serverVars, peerIP, peerClosed, readAny, wire, wfail, methods,
                   auth, request, dispatched, bindVars, udpVars, codecVars>>

\* The first byte the client sends (EOF: it sends none).
EOF == -1
VersionInputs == {EOF, 4, 5}

\* ServeConn 415-427: read and check the version byte.
ReadVersion(in) ==
    /\ pc = "version"
    /\ readAny' = (readAny \/ in # EOF)
    /\ IF in = socks5Version
       THEN pc' = "methods" /\ connOpen' = connOpen
       ELSE Return
    /\ UNCHANGED <<serverVars, peerIP, peerClosed, wire, wfail, methods, auth,
                   request, dispatched, bindVars, udpVars, codecVars>>

MethodCodes == {0, 1, 2}
MethodLists == UNION {[1..n -> MethodCodes] : n \in 0..MaxMethods}

\* What the client sends for method selection: NMETHODS and the method bytes that
\* follow before the stream ends (n = EOF: the stream ends before NMETHODS).
MethodInputs ==
    {[n |-> EOF, bytes |-> <<>>]} \cup
    {in \in [n : 0..MaxMethods, bytes : MethodLists] : Len(in.bytes) <= in.n}

\* readMethods: fails unless numMethods bytes follow the header.
readMethods(in) ==
    IF in.n = EOF THEN [ok |-> FALSE]
    ELSE IF Len(in.bytes) < in.n THEN [ok |-> FALSE]
    ELSE [ok |-> TRUE, methods |-> SubSeq(in.bytes, 1, in.n)]

\* Mutant of SelectMethod: the server's preference (lowest registered code)
\* decides, not the order the client sent.
SelectMethod_serverOrder(ms, reg) ==
    LET offered == {ms[i] : i \in 1..Len(ms)} \cap DOMAIN reg IN
    IF offered = {} THEN noAcceptable
    ELSE CHOOSE c \in offered : \A d \in offered : c <= d

\* authenticate 148-155: the first client method, in the order received, that is
\* registered; noAcceptable if there is none.
SelectMethod(ms, reg) ==
    LET hits == {i \in 1..Len(ms) : ms[i] \in DOMAIN reg} IN
    IF hits = {} THEN noAcceptable
    ELSE ms[CHOOSE i \in hits : \A j \in hits : i <= j]

\* authenticate's results: (nil, err) and (ctx, nil).
NilContext == [Method |-> noAcceptable, Payload |-> <<>>]
AuthFailed(sel, why) == [state |-> "failed", sel |-> sel, why |-> why, ctx |-> NilContext]

\* Mutant of AuthErr: the error returned by authenticate is ignored.
AuthErr_ignored(a) == FALSE

\* ServeConn 431: if err != nil
AuthErr(a) == a.state = "failed"

\* Server.authenticate up to the first blocking read of the chosen handshake:
\* readMethods, the selection loop, and the method-selection reply written by
\* noAcceptableAuth, NoAuthAuthenticator.Authenticate or
\* UserPassAuthenticator.Authenticate (line 88).
Authenticate(in, wok) ==
    /\ pc = "methods"
    /\ readAny' = (readAny \/ in.n # EOF)
    /\ LET r == readMethods(in) IN
       IF ~r.ok
       THEN /\ auth' = AuthFailed(EOF, "Failed to get auth methods")
            /\ methods' = <<>>
            /\ pc' = "authret"
            /\ UNCHANGED <<wire, wfail>>
       ELSE
         LET sel == SelectMethod(r.methods, authMethods) IN
         /\ methods' = r.methods
         /\ wire' = Written(Frame("method", <<socks5Version, sel>>), wok)
         /\ wfail' = (wfail \/ ~wok)
         /\ CASE sel = noAcceptable ->
                   /\ auth' = AuthFailed(sel, "NoSupportedAuth")
                   /\ pc' = "authret"
              [] sel = NoAuth ->
                   /\ auth' = IF wok
                              THEN [state |-> "ok", sel |-> sel,
                                    ctx |-> [Method |-> NoAuth, Payload |-> <<>>]]
                              ELSE AuthFailed(sel, "write")
                   /\ pc' = "authret"
              [] sel = UserPassAuth ->
                   IF wok
                   THEN /\ auth' = [state |-> "subneg", sel |-> sel]
                        /\ pc' = "subneg"
                   ELSE /\ auth' = AuthFailed(sel, "write")
                        /\ pc' = "authret"
    /\ UNCHANGED <<serverVars, peerIP, connOpen, peerClosed, request, dispatched,
                   bindVars, udpVars, codecVars>>

SubnegUsers  == {<<>>, UserA, UserB}
SubnegPasses == {<<>>, PassX}

\* What the client sends for the sub-negotiation: a version byte, a user and a
\* password, or a stream that ends before the request is complete (ver = EOF).
SubnegInputs ==
    {[ver |-> EOF, user |-> <<>>, pass |-> <<>>]} \cup
    {[ver |-> v, user |-> u, pass |-> p] :
        v \in {userAuthVersion, socks5Version}, u \in SubnegUsers, p \in SubnegPasses}

\* UserPassAuthenticator.Authenticate 92-135, after [5, 2] was written.
Subnegotiate(in, wok) ==
    /\ pc = "subneg"
    /\ readAny' = TRUE
    /\ pc' = "authret"
    /\ IF in.ver = EOF
       THEN /\ auth' = AuthFailed(UserPassAuth, "read")
            /\ UNCHANGED <<wire, wfail>>
       ELSE IF in.ver # userAuthVersion
       THEN /\ auth' = AuthFailed(UserPassAuth, "Unsupported auth version")
            /\ UNCHANGED <<wire, wfail>>
       ELSE
         LET ok == Valid(authMethods[UserPassAuth].Credentials, in.user, in.pass) IN
         /\ wire' = Written(Frame("status",
                        <<userAuthVersion, IF ok THEN authSuccess ELSE authFailure>>), wok)
         /\ wfail' = (wfail \/ ~wok)
         /\ auth' = IF ok /\ wok
                    THEN [state |-> "ok", sel |-> UserPassAuth,
                          user |-> in.user, pass |-> in.pass, valid |-> ok,
                          ctx |-> [Method |-> UserPassAuth, Payload |-> [Username |-> in.user]]]
                    ELSE [state |-> "failed", sel |-> UserPassAuth,
                          user |-> in.user, pass |-> in.pass, valid |-> ok,
                          why |-> IF ok THEN "write" ELSE "UserAuthFailed",
                          ctx |-> NilContext]
    /\ UNCHANGED <<serverVars, peerIP, connOpen, peerClosed, methods, request,
                   dispatched, bindVars, udpVars, codecVars>>

\* ServeConn 431-435: authenticate returned an error.
AuthError ==
    /\ pc = "authret"
    /\ AuthErr(auth)
    /\ Return
    /\ methods' = <<>>
    /\ UNCHANGED <<serverVars, peerIP, peerClosed, readAny, wire, wfail, auth,
                   request, dispatched, bindVars, udpVars, codecVars>>

---------------------------------------------------------------------------
(* The request and the policy pipeline                                      *)

Dest4 == [atyp |-> ipv4Address, addr |-> <<127, 0, 0, 1>>, port |-> 80]
DestN == [atyp |-> fqdnAddress, addr |-> <<97>>, port |-> 80]
DestX == [atyp |-> 5, addr |-> <<>>, port |-> 0]

\* What the client sends as its request (ver = EOF: the stream ends early).
RequestInputs ==
    {[ver |-> EOF, cmd |-> 0, dest |-> DestX]} \cup
    [ver : {socks5Version, 4}, cmd : {ConnectCommand, BindCommand, AssociateCommand, 9},
     dest : {Dest4, DestN, DestX}]

\* NewRequest: [VER, CMD, RSV, ATYP], then the address by ATYP, then the port.
NewRequest(in) ==
    IF in.ver = EOF THEN [ok |-> FALSE, err |-> "read"]
    ELSE IF in.ver # socks5Version THEN [ok |-> FALSE, err |-> "version"]
    ELSE IF in.dest.atyp \notin {ipv4Address, fqdnAddress, ipv6Address}
         THEN [ok |-> FALSE, err |-> "errUnrecognizedAddrType"]
    ELSE [ok |-> TRUE, req |-> [cmd |-> in.cmd, dest |-> in.dest]]

\* Mutant of ReplyOnRequestError: every request error is answered with a reply.
ReplyOnRequestError_always(err) == TRUE

\* Mutant of ReplyOnRequestError: no request error is answered with a reply.
ReplyOnRequestError_never(err) == FALSE

\* ServeConn 440: only errUnrecognizedAddrType is reported to the client.
ReplyOnRequestError(err) == err = "errUnrecognizedAddrType"

\* ServeConn 437-450: read the request; reply REP=8 on an unsupported ATYP.
ReadRequest(in, wok) ==
    /\ pc = "authret"
    /\ ~AuthErr(auth)
    /\ readAny' = TRUE
    /\ methods' = <<>>
    /\ LET r == NewRequest(in) IN
       IF r.ok
       THEN /\ request' = [cmd |-> r.req.cmd, err |-> "none", dest |-> r.req.dest,
                           AuthContext |-> auth.ctx, RemoteAddr |-> peerIP]
            /\ pc' = "handle"
            /\ UNCHANGED <<connOpen, wire, wfail>>
       ELSE /\ IF ReplyOnRequestError(r.err)
               THEN /\ wire' = Written(ReplyFrame(addrTypeNotSupported, NoAddr), wok)
                    /\ wfail' = (wfail \/ ~wok)
               ELSE UNCHANGED <<wire, wfail>>
            /\ Return
            /\ request' = [cmd |-> 0, err |-> r.err]
    /\ UNCHANGED <<serverVars, peerIP, peerClosed, auth, dispatched, bindVars,
                   udpVars, codecVars>>

\* ServeConn: ctx := context.Background()
Background == "context.Background"

HandlerOf(cmd) ==
    CASE cmd = ConnectCommand   -> "connect"
      [] cmd = BindCommand      -> "bind"
      [] cmd = AssociateCommand -> "associate"

\* handleRequest: resolve a domain name, ask the rule set, dispatch by command.
HandleRequest(resolved, wok) ==
    /\ pc = "handle"
    /\ IF request.dest.atyp = fqdnAddress /\ ~resolved
       THEN /\ wire' = Written(ReplyFrame(hostUnreachable, NoAddr), wok)
            /\ wfail' = (wfail \/ ~wok)
            /\ Return
            /\ UNCHANGED dispatched
       ELSE IF ~Allow(rules, Background, request.cmd).ok
       THEN /\ wire' = Written(ReplyFrame(ruleFailure, NoAddr), wok)
            /\ wfail' = (wfail \/ ~wok)
            /\ Return
            /\ UNCHANGED dispatched
       ELSE /\ dispatched' = HandlerOf(request.cmd)
            /\ pc' = dispatched'
            /\ UNCHANGED <<connOpen, wire, wfail>>
    /\ UNCHANGED <<serverVars, peerIP, peerClosed, readAny, methods, auth, request,
                   bindVars, udpVars, codecVars>>

---------------------------------------------------------------------------
(* Relay of a TCP stream: the two proxy tasks and the join (doBind 110-123) *)

BindIP       == <<127, 0, 0, 1>>
ListenPort   == 40000
LocalAddr    == [present |-> TRUE, IP |-> <<10, 0, 0, 9>>, Port |-> 50000]
RemoteAddrs  == {[present |-> TRUE, IP |-> <<10, 0, 0, 5>>, Port |-> 54321],
                 [present |-> TRUE, IP |-> <<127, 0, 0, 1>>, Port |-> 54322]}

RelayFrames == {i \in 1..Len(wire) : wire[i].kind = "relay"}

\* The handler returns: its deferred Close calls run, then ServeConn's.
HandlerReturn ==
    /\ tcpConn' = CloseAllOf(tcpConn)
    /\ listener' = CloseAllOf(listener)
    /\ Return

\* errCh := make(chan error, 2); go proxy(tcpConn, req.bufConn, errCh);
\* go proxy(conn, tcpConn, errCh)
StartRelay ==
    /\ copy' = [t \in 1..2 |-> "running"]
    /\ pc' = "join"

\* proxy(conn, tcpConn, errCh): io.Copy writes a chunk read from the accepted
\* (or dialed) connection to the control connection.
CopyChunk ==
    /\ copy[2] = "running"
    /\ connOpen /\ tcpConn = "open"
    /\ Cardinality(RelayFrames) < MaxRelay
    /\ wire' = Append(wire, Frame("relay", <<42>>))
    /\ UNCHANGED <<serverVars, pc, peerIP, connOpen, peerClosed, readAny, wfail,
                   methods, auth, request, dispatched, bindVars, udpVars, codecVars>>

\* Mutant of CanSend: the channel is unbuffered (make(chan error)), a send
\* proceeds only while the handler is receiving.
CanSend_unbuffered(ch) == pc = "join" /\ Len(ch) < 1

\* doBind 111: errCh := make(chan error, 2). A send on it proceeds while fewer
\* than two results are buffered, and blocks otherwise.
CanSend(ch) == Len(ch) < 2

\* proxy: io.Copy has returned (nil on EOF, or an error); errCh <- err.
CopyEnd(t, e) ==
    /\ copy[t] = "running"
    /\ CanSend(errCh)
    /\ errCh' = Append(errCh, e)
    /\ copy' = [copy EXCEPT ![t] = "done"]
    /\ UNCHANGED <<serverVars, connVars, listener, lport, callbacks, accepted,
                   tcpConn, joined, udpVars, codecVars>>

\* Mutant of JoinReturns: the handler always waits for both tasks.
JoinReturns_both(got) == Len(got) = 2

\* doBind 116-123: return on the first non-nil result, or after two results.
JoinReturns(got) == got[Len(got)] # Nil \/ Len(got) = 2

\* e := <-errCh in the handler's join loop.
Join ==
    /\ pc = "join"
    /\ errCh # <<>>
    /\ errCh' = Tail(errCh)
    /\ joined' = Append(joined, Head(errCh))
    /\ IF JoinReturns(joined')
       THEN HandlerReturn
       ELSE UNCHANGED <<pc, connOpen, tcpConn, listener>>
    /\ UNCHANGED <<serverVars, peerIP, peerClosed, readAny, wire, wfail, methods,
                   auth, request, dispatched, lport, callbacks, accepted, copy,
                   udpVars, codecVars>>

\* The client closes its end of the control connection during a relay.
ClientClose ==
    /\ pc \in {"join", "relay"}
    /\ connOpen /\ ~peerClosed
    /\ peerClosed' = TRUE
    /\ UNCHANGED <<serverVars, pc, peerIP, connOpen, readAny, wire, wfail, methods,
                   auth, request, dispatched, bindVars, udpVars, codecVars>>

---------------------------------------------------------------------------
(* CONNECT handler                                                          *)

\* Outcome of the dial: successReply, or the REP code its error maps to.
DialResults == {successReply, serverFailure, networkUnreachable, hostUnreachable,
                connectionRefused}

\* Dial the destination; reply with the mapped REP on failure, with the local
\* address of the outbound socket on success; then relay.
Connect(res, wok) ==
    /\ pc = "connect"
    /\ wfail' = (wfail \/ ~wok)
    /\ IF res # successReply
       THEN /\ wire' = Written(ReplyFrame(res, NoAddr), wok)
            /\ HandlerReturn
            /\ UNCHANGED copy
       ELSE /\ wire' = Written(ReplyFrame(successReply, LocalAddr), wok)
            /\ IF wok
               THEN /\ tcpConn' = "open"
                    /\ StartRelay
                    /\ UNCHANGED <<connOpen, listener>>
               ELSE /\ tcpConn' = "closed"
                    /\ Return
                    /\ UNCHANGED <<copy, listener>>
    /\ UNCHANGED <<serverVars, peerIP, peerClosed, readAny, methods, auth, request,
                   dispatched, lport, callbacks, accepted, errCh, joined, udpVars,
                   codecVars>>

---------------------------------------------------------------------------
(* BIND handler (doBind)                                                    *)

\* listenTcp.Addr() of net.Listen("tcp", "0.0.0.0:0") bound to port p.
ListenAddr(p) == [present |-> TRUE, IP |-> <<0, 0, 0, 0>>, Port |-> p]

\* Mutant of InvokeCallBack: the callback is invoked a second time.
InvokeCallBack_twice(cbSet, addr) ==
    [set |-> cbSet, calls |-> IF cbSet THEN <<addr, addr>> ELSE <<>>]

\* doBind 56-58: if BindCallBack != nil { BindCallBack(listenTcp.Addr().String()) }
InvokeCallBack(cbSet, addr) ==
    [set |-> cbSet, calls |-> IF cbSet THEN <<addr>> ELSE <<>>]

\* doBind 47-58: open the listener; on failure reply REP=1 and return;
\* on success call BindCallBack if one is set (cbSet).
BindListen(ok, cbSet, wok) ==
    /\ pc = "bind"
    /\ IF ok
       THEN /\ listener' = "open"
            /\ lport' = ListenPort
            /\ callbacks' = InvokeCallBack(cbSet, ListenAddr(lport'))
            /\ pc' = "bindReply1"
            /\ UNCHANGED <<connOpen, wire, wfail>>
       ELSE /\ wire' = Written(ReplyFrame(serverFailure, NoAddr), wok)
            /\ wfail' = (wfail \/ ~wok)
            /\ Return
            /\ callbacks' = [set |-> cbSet, calls |-> <<>>]
            /\ UNCHANGED <<listener, lport>>
    /\ UNCHANGED <<serverVars, peerIP, peerClosed, readAny, methods, auth, request,
                   dispatched, accepted, tcpConn, copy, errCh, joined, udpVars,
                   codecVars>>

\* Mutant of BindFirstReply: the first reply is not written.
BindFirstReply_omitted(wok) ==
    /\ pc = "bindReply1"
    /\ pc' = "accept"
    /\ UNCHANGED <<serverVars, peerIP, connOpen, peerClosed, readAny, wire, wfail,
                   methods, auth, request, dispatched, bindVars, udpVars, codecVars>>

\* Mutant of FirstBindAddr: the reply carries the listener's own address 0.0.0.0.
FirstBindAddr_listenerIP == [present |-> TRUE, IP |-> <<0, 0, 0, 0>>, Port |-> lport]

\* doBind 68: bindAddr := AddrSpec{IP: s.config.BindIP, Port: bindPort}
FirstBindAddr == [present |-> TRUE, IP |-> BindIP, Port |-> lport]

\* doBind 67-71: the first reply.
BindFirstReply(wok) ==
    /\ pc = "bindReply1"
    /\ wire' = Written(ReplyFrame(successReply, FirstBindAddr), wok)
    /\ wfail' = (wfail \/ ~wok)
    /\ IF wok
       THEN pc' = "accept" /\ UNCHANGED <<connOpen, listener, tcpConn>>
       ELSE HandlerReturn
    /\ UNCHANGED <<serverVars, peerIP, peerClosed, readAny, methods, auth, request,
                   dispatched, lport, callbacks, accepted, copy, errCh, joined,
                   udpVars, codecVars>>

\* Mutant of AcceptsPeer: only a peer with the IP of req.DestAddr is kept.
AcceptsPeer_destOnly(remote, dest) ==
    dest.atyp = ipv4Address /\ remote.IP = dest.addr

\* doBind 82-87: the check of the peer against req.DestAddr is commented out
\* (a TODO), so the loop keeps whatever connection Accept returned.
AcceptsPeer(remote, dest) == TRUE

\* Mutant of BindAccept: a failed Accept returns without a reply.
BindAccept_silent(ok, remote, wok) ==
    /\ pc = "accept"
    /\ Len(accepted) < MaxAccept
    /\ IF ok
       THEN /\ accepted' = Append(accepted, remote)
            /\ tcpConn' = "open"
            /\ pc' = "bindReply2"
            /\ UNCHANGED <<connOpen, wire, wfail, listener>>
       ELSE /\ HandlerReturn
            /\ UNCHANGED <<accepted, wire, wfail>>
    /\ UNCHANGED <<serverVars, peerIP, peerClosed, readAny, methods, auth, request,
                   dispatched, lport, callbacks, copy, errCh, joined, udpVars,
                   codecVars>>

\* doBind 73-93: the accept loop. accepted are the connections Accept returned;
\* the one the loop keeps becomes tcpConn, one it refuses is followed by another
\* Accept; when Accept fails the handler replies REP=1 and returns.
BindAccept(ok, remote, wok) ==
    /\ pc = "accept"
    /\ Len(accepted) < MaxAccept
    /\ IF ok /\ AcceptsPeer(remote, request.dest)
       THEN /\ accepted' = Append(accepted, remote)
            /\ tcpConn' = "open"
            /\ pc' = "bindReply2"
            /\ UNCHANGED <<connOpen, wire, wfail, listener>>
       ELSE IF ok
       THEN /\ accepted' = Append(accepted, remote)
            /\ UNCHANGED <<pc, connOpen, wire, wfail, listener, tcpConn>>
       ELSE /\ wire' = Written(ReplyFrame(serverFailure, NoAddr), wok)
            /\ wfail' = (wfail \/ ~wok)
            /\ HandlerReturn
            /\ UNCHANGED accepted
    /\ UNCHANGED <<serverVars, peerIP, peerClosed, readAny, methods, auth, request,
                   dispatched, lport, callbacks, copy, errCh, joined, udpVars,
                   codecVars>>

\* doBind 105: acceptAddr := AddrSpec{IP: net.ParseIP(remoteIp), Port: remotePort}
SecondBindAddr == accepted[Len(accepted)]

\* doBind 104-113: the second reply, then the two proxy tasks are started.
BindSecondReply(wok) ==
    /\ pc = "bindReply2"
    /\ wire' = Written(ReplyFrame(successReply, SecondBindAddr), wok)
    /\ wfail' = (wfail \/ ~wok)
    /\ IF wok
       THEN StartRelay /\ UNCHANGED <<connOpen, listener, tcpConn>>
       ELSE HandlerReturn /\ UNCHANGED copy
    /\ UNCHANGED <<serverVars, peerIP, peerClosed, readAny, methods, auth, request,
                   dispatched, lport, callbacks, accepted, errCh, joined, udpVars,
                   codecVars>>

---------------------------------------------------------------------------
(* UDP ASSOCIATE handler (associate.go)                                     *)

UdpPort == 40001

\* Mutant of AssocListen: a failed bind is reported with a REP=0x01 reply.
AssocListen_replies(ok) ==
    /\ pc = "associate"
    /\ IF ok
       THEN /\ udp' = "open"
            /\ drain' = "running"
            /\ pc' = "assocReply"
            /\ UNCHANGED <<connOpen, wire>>
       ELSE /\ wire' = Append(wire, [kind |-> "reply",
                           bytes |-> <<socks5Version, serverFailure, 0, ipv4Address,
                                       0, 0, 0, 0, 0, 0>>])
            /\ pc' = "closed"
            /\ connOpen' = FALSE
            /\ UNCHANGED <<udp, drain>>
    /\ UNCHANGED <<serverVars, peerIP, peerClosed, readAny, wfail, methods,
                   auth, request, dispatched, bindVars, peers, flows, rtask,
                   nDgram, sent, udpLog, codecVars>>

\* doAssociate 67-90: bind the relay socket (no reply on failure) and start the
\* task that drains the control connection.
AssocListen(ok) ==
    /\ pc = "associate"
    /\ IF ok
       THEN /\ udp' = "open"
            /\ drain' = "running"
            /\ pc' = "assocReply"
            /\ UNCHANGED connOpen
       ELSE /\ Return
            /\ UNCHANGED <<udp, drain>>
    /\ UNCHANGED <<serverVars, peerIP, peerClosed, readAny, wire, wfail, methods,
                   auth, request, dispatched, bindVars, peers, flows, rtask,
                   nDgram, sent, udpLog, codecVars>>

\* doAssociate 92-96: the success reply; on a failed write the deferred
\* udpServer.Close() runs and the handler returns.
AssocReply(wok) ==
    /\ pc = "assocReply"
    /\ wire' = Written(ReplyFrame(successReply, [present |-> TRUE, IP |-> BindIP, Port |-> UdpPort]), wok)
    /\ wfail' = (wfail \/ ~wok)
    /\ IF wok
       THEN pc' = "relay" /\ UNCHANGED <<connOpen, udp>>
       ELSE udp' = "closed" /\ Return
    /\ UNCHANGED <<serverVars, peerIP, peerClosed, readAny, methods, auth, request,
                   dispatched, bindVars, drain, peers, flows, rtask, nDgram, sent,
                   udpLog, codecVars>>

\* The drain task: io.Copy(io.Discard, conn) returns on EOF or error, and the
\* task ends; it does nothing else.
DrainReturn ==
    /\ drain = "running"
    /\ peerClosed \/ ~connOpen
    /\ drain' = "done"
    /\ UNCHANGED <<serverVars, connVars, bindVars, udp, peers, flows, rtask, nDgram,
                   sent, udpLog, codecVars>>

ClientSrcs == {"192.0.2.1:5000", "192.0.2.2:5000"}

Dgram4   == <<0, 0, 0, ipv4Address, 127, 0, 0, 1, 34, 184, 112>>
DgramN   == <<0, 0, 0, fqdnAddress, 2, 97, 98, 0, 80, 112>>
DgramBad == <<0, 0, 1, ipv4Address, 127, 0, 0, 1, 34, 184, 112>>
SampleDgrams == {Dgram4, DgramN, DgramBad}

FlowIds == DOMAIN flows

\* The clock read by time.Now().Unix(), counted in events of the association.
Now == nDgram + Len(sent)

\* memCreater.Alloc: a new buffer, not freed yet; the buffer is Len(h) + 1.
Alloc(h) == Append(h, 0)

\* datagram.free(ctx): memCreater.Free of the datagram's buffer.
Free(h, b) == [h EXCEPT ![b] = @ + 1]

\* if datagram != nil { datagram.free(ctx) }
FreeIfHeld(h, b) == IF b # 0 THEN Free(h, b) ELSE h

\* Mutant of Forget: the local keeps pointing at the freed datagram.
Forget_stale(b) == b

\* datagram = nil, after datagram.free(ctx) at the end of an iteration.
Forget(b) == 0

\* udpPeer.dst.Close(), v.dst.Close(): the socket of flow f is closed once more.
CloseDst(f) == [f EXCEPT !.open = FALSE, !.closes = @ + 1]

\* Mutant of CloseAll: no socket is closed.
CloseAll_none(fl, tbl) == fl

\* UdpAssociate.CloseAll: v.dst.Close() for every entry of the table.
CloseAll(fl, tbl) ==
    [i \in DOMAIN fl |->
        IF \E k \in DOMAIN tbl : tbl[k] = i THEN CloseDst(fl[i])
        ELSE fl[i]]

\* readFromSrc 127-133 and doAssociate's deferred udpServer.Close(): the loop has
\* ended; close every flow of the table, close the relay socket, return.
RelayLoopExit ==
    /\ flows' = CloseAll(flows, peers)
    /\ udp' = "closed"
    /\ Return

\* Mutant of Key: every datagram gets a key of its own.
Key_perDatagram(from, d) == <<from, Address(d), nDgram>>

\* handleDatagram 141: key := from.String() + "-" + datagram.Address()
Key(from, d) == <<from, Address(d)>>

\* handleDatagram 153: dst, err := dial(ctx, "udp", datagram.Address())
DialTarget(d) == Address(d)

\* Mutant of NewUdpPeer: udpPeer.from is not the sender of the datagram.
NewUdpPeer_firstSrc(from, d, b) ==
    [from |-> "192.0.2.1:5000", open |-> TRUE, target |-> DialTarget(d), atyp |-> d.ATyp,
     dstAddr |-> d.DstAddr, dstPort |-> d.DstPort, out |-> <<>>, rd |-> <<>>,
     addrMem |-> 0, portMem |-> 0, closes |-> 0,
     updateTime |-> Now, writers |-> {"readFromSrc"}]

\* Mutant of OwnCopy: the slice of the datagram is stored as it is.
OwnCopy_alias(b) == b

\* handleDatagram 168-169 and 171-172: x = make([]byte, len(y)); copy(x, y).
\* The memory that backs the new slice: 0 is memory of its own, b > 0 is the
\* allocator's buffer b.
OwnCopy(b) == 0

\* handleDatagram 160-172: the new UdpPeer for a datagram d held in buffer b,
\* with its own copies of the address and port bytes (addrMem, portMem: the
\* memory that backs them), and its connected socket. out are the payloads
\* written to that socket, rd the payloads read from it that fitted the send
\* buffer; closes counts the Close calls on the socket; writers are the tasks
\* that wrote a field of the flow.
NewUdpPeer(from, d, b) ==
    [from |-> from, open |-> TRUE, target |-> DialTarget(d), atyp |-> d.ATyp,
     dstAddr |-> d.DstAddr, dstPort |-> d.DstPort, out |-> <<>>, rd |-> <<>>,
     addrMem |-> OwnCopy(b), portMem |-> OwnCopy(b), closes |-> 0,
     updateTime |-> Now, writers |-> {"readFromSrc"}]

Put(tbl, k, v) == [x \in DOMAIN tbl \cup {k} |-> IF x = k THEN v ELSE tbl[x]]

\* Mutant of Del: the entry stays in the table.
Del_kept(tbl, k) == tbl

\* Mutant of Del: the whole table is dropped.
Del_all(tbl, k) == [x \in {} |-> 0]

Del(tbl, k) == [x \in DOMAIN tbl \ {k} |-> tbl[x]]

\* udpPeer.updateTime = time.Now().Unix(), by the task that executes it.
TouchedBy(f, task) ==
    [f EXCEPT !.updateTime = Now, !.writers = @ \cup {task}]

\* How the relay loop served a datagram: the flow that took it (0: none), whether
\* a dial was attempted, whether its DATA was written to the outbound socket.
Served(from, bs, id, dialed, wrote) ==
    [from |-> from, bytes |-> bs, flow |-> id, dialed |-> dialed, wrote |-> wrote]

\* Mutant of Enqueue: the payload is put in front of those written before.
Enqueue_front(q, x) == <<x>> \o q

\* udpPeer.dst.Write(datagram.Data): the socket sends in the order written.
Enqueue(q, x) == Append(q, x)

\* Mutant of BreaksOn: an error of handleDatagram ends the relay loop.
BreaksOn_error(err) == err # Nil

\* readFromSrc 122: the value handleDatagram returns is discarded, so no error
\* of it ends the loop.
BreaksOn(err) == FALSE

\* readFromSrc 110-126 with handleDatagram: one iteration of the relay loop on
\* a datagram bs received from `from`, at most `limit` of them. dialOK and
\* writeOK are the outcomes of the dial (if the key is new) and of the write to
\* the outbound socket.
RecvDatagramN(limit, from, bs, dialOK, writeOK) ==
    /\ pc = "relay"
    /\ udp = "open"
    /\ nDgram < limit
    /\ nDgram' = nDgram + 1
    /\ LET r == NewDatagramFromByte(bs) IN
       IF ~r.ok
       THEN /\ RelayLoopExit
            /\ heap' = FreeIfHeld(heap, 0)
            /\ held' = [held EXCEPT !.src = 0]
            /\ rcvd' = Append(rcvd, Served(from, bs, 0, FALSE, FALSE))
            /\ UNCHANGED <<peers, rtask>>
       ELSE
         LET b == Len(heap) + 1
             key == Key(from, r.d)
             isNew == key \notin DOMAIN peers
             id == IF isNew THEN Len(flows) + 1 ELSE peers[key]
         IN
         /\ heap' = Free(Alloc(heap), b)
         /\ IF isNew /\ ~dialOK
            THEN /\ held' = [held EXCEPT !.src = Forget(b)]
                 /\ rcvd' = Append(rcvd, Served(from, bs, 0, TRUE, FALSE))
                 /\ IF BreaksOn("Connect failed")
                    THEN RelayLoopExit /\ UNCHANGED <<peers, rtask>>
                    ELSE UNCHANGED <<pc, connOpen, udp, peers, flows, rtask>>
            ELSE
              LET flows1 == IF isNew THEN Append(flows, NewUdpPeer(from, r.d, b)) ELSE flows
                  peers1 == IF isNew THEN Put(peers, key, id) ELSE peers
              IN
              /\ rtask' = IF isNew THEN Append(rtask, "running") ELSE rtask
              /\ held' = [held EXCEPT !.src = Forget(b),
                                      !.dst = IF isNew THEN Append(@, 0) ELSE @]
              /\ rcvd' = Append(rcvd, Served(from, bs, id, isNew, writeOK))
              /\ IF writeOK
                 THEN /\ flows' = [flows1 EXCEPT
                                 ![id] = TouchedBy([@ EXCEPT !.out = Enqueue(@, r.d.Data)],
                                                   "readFromSrc")]
                      /\ peers' = peers1
                 ELSE /\ flows' = [flows1 EXCEPT ![id] = CloseDst(@)]
                      /\ peers' = Del(peers1, key)
              /\ UNCHANGED <<pc, connOpen, udp>>
    /\ UNCHANGED <<serverVars, peerIP, peerClosed, readAny, wire, wfail, methods,
                   auth, request, dispatched, bindVars, drain, sent, codecVars>>

RecvDatagram(from, bs, dialOK, writeOK) ==
    RecvDatagramN(MaxDgram, from, bs, dialOK, writeOK)

\* readFromSrc 112-115: ReadFromUdp returned an error.
UdpReadError ==
    /\ pc = "relay"
    /\ udp = "open"
    /\ RelayLoopExit
    /\ heap' = FreeIfHeld(heap, held.src)
    /\ held' = [held EXCEPT !.src = 0]
    /\ UNCHANGED <<serverVars, peerIP, peerClosed, readAny, wire, wfail, methods,
                   auth, request, dispatched, bindVars, drain, peers, rtask,
                   nDgram, sent, rcvd, codecVars>>

Payloads == {<<>>, <<111>>}

\* readFromDst 198-220: one iteration of a reverse-path task, at most `limit`
\* replies sent; the remote endpoint returned `payload`, sendOK is the outcome
\* of WriteToUDP.
RemoteReplyN(limit, id, payload, sendOK) ==
    /\ id \in FlowIds
    /\ rtask[id] = "running"
    /\ flows[id].open
    /\ Len(sent) < limit
    /\ LET f == flows[id]
           d == NewDatagram(f.atyp, f.dstAddr, f.dstPort, payload)
           b == Len(heap) + 1
           bt == toBytes(d, BufSize)
           read == [flows EXCEPT ![id].rd = Append(@, payload)]
       IN IF bt.n <= 0 \/ udp # "open" \/ ~sendOK
          THEN /\ rtask' = [rtask EXCEPT ![id] = "done"]
               /\ heap' = FreeIfHeld(Alloc(heap), b)
               /\ held' = [held EXCEPT !.dst[id] = 0]
               /\ flows' = IF bt.n <= 0 THEN flows ELSE read
               /\ UNCHANGED <<sent, peers>>
          ELSE /\ sent' = Append(sent, [to |-> f.from, bytes |-> bt.bytes, by |-> id])
               /\ heap' = Free(Alloc(heap), b)
               /\ held' = [held EXCEPT !.dst[id] = Forget(b)]
               /\ flows' = [read EXCEPT ![id] = TouchedBy(@, "readFromDst")]
               /\ UNCHANGED <<rtask, peers>>
    /\ UNCHANGED <<serverVars, connVars, bindVars, udp, drain, nDgram, rcvd,
                   codecVars>>

RemoteReply(id, payload, sendOK) == RemoteReplyN(MaxReply, id, payload, sendOK)

\* readFromDst 198-200 and 222-225: the read has failed, the task returns; it
\* closes nothing and leaves the flow table as it is.
ReadFromDstExit(id) ==
    /\ rtask' = [rtask EXCEPT ![id] = "done"]
    /\ heap' = FreeIfHeld(heap, held.dst[id])
    /\ held' = [held EXCEPT !.dst[id] = 0]
    /\ UNCHANGED <<serverVars, connVars, bindVars, udp, drain, peers, flows, nDgram,
                   sent, rcvd, codecVars>>

\* Mutant of ReadFromDstClosed: a Read on a closed socket keeps blocking.
ReadFromDstClosed_blocks(id) ==
    /\ id \in FlowIds
    /\ rtask[id] = "running"
    /\ ~flows[id].open
    /\ UNCHANGED vars

\* readFromDst 198-200: the read fails because the outbound socket was closed.
ReadFromDstClosed(id) ==
    /\ id \in FlowIds
    /\ rtask[id] = "running"
    /\ ~flows[id].open
    /\ ReadFromDstExit(id)

\* readFromDst 198-200: the read fails on an open socket (for instance an ICMP
\* port-unreachable reported on the connected UDP socket).
ReadFromDstError(id) ==
    /\ id \in FlowIds
    /\ rtask[id] = "running"
    /\ flows[id].open
    /\ ReadFromDstExit(id)

---------------------------------------------------------------------------
(* The connection specification                                             *)

\* Steps the server takes on its own once they are enabled.
ServerStep ==
    \/ CheckAllowlist
    \/ \E wok \in BOOLEAN : BindFirstReply(wok)
    \/ \E wok \in BOOLEAN : BindSecondReply(wok)
    \/ \E wok \in BOOLEAN : AssocReply(wok)
    \/ \E ok \in BOOLEAN : AssocListen(ok)
    \/ \E ok, cb, wok \in BOOLEAN : BindListen(ok, cb, wok)
    \/ \E res \in BOOLEAN, wok \in BOOLEAN : HandleRequest(res, wok)
    \/ AuthError
    \/ Join
    \/ DrainReturn
    \/ \E id \in 1..MaxDgram : ReadFromDstClosed(id)

\* Steps that wait for the client, a remote endpoint or the network.
EnvStep ==
    \/ \E l \in Allowlists : SetIPAllowlist(l)
    \/ \E ip \in PeerIPs : Accept(ip)
    \/ \E in \in VersionInputs : ReadVersion(in)
    \/ \E in \in MethodInputs, wok \in BOOLEAN : Authenticate(in, wok)
    \/ \E in \in SubnegInputs, wok \in BOOLEAN : Subnegotiate(in, wok)
    \/ \E in \in RequestInputs, wok \in BOOLEAN : ReadRequest(in, wok)
    \/ \E res \in DialResults, wok \in BOOLEAN : Connect(res, wok)
    \/ \E ok \in BOOLEAN, remote \in RemoteAddrs, wok \in BOOLEAN :
          BindAccept(ok, remote, wok)
    \/ CopyChunk
    \/ \E t \in 1..2, e \in {Nil, "error"} : CopyEnd(t, e)
    \/ ClientClose
    \/ \E from \in ClientSrcs, bs \in SampleDgrams, dialOK, writeOK \in BOOLEAN :
          RecvDatagram(from, bs, dialOK, writeOK)
    \/ UdpReadError
    \/ \E id \in 1..MaxDgram, payload \in Payloads, sendOK \in BOOLEAN :
          RemoteReply(id, payload, sendOK)
    \/ \E id \in 1..MaxDgram : ReadFromDstError(id)

Next == ServerStep \/ EnvStep

Spec == Init /\ [][Next]_vars

\* The Go scheduler runs every runnable task: a server step that stays enabled
\* is eventually taken. Nothing obliges the client, the remote endpoints or the
\* network to act.
FairSpec == Spec /\ WF_vars(ServerStep)

\* Once the handler has returned and its deferred Close calls have closed both
\* sockets, the io.Copy of a proxy task returns an error and the scheduler
\* runs the task's send of it.
JoinFairSpec == Spec /\ WF_vars(\E t \in 1..2 : pc = "closed" /\ CopyEnd(t, "error"))

---------------------------------------------------------------------------
(* UdpSpec: the relay phase of one UDP association, explored deeper than     *)
(* Spec does. It starts where Spec arrives after a no-auth handshake, an     *)
(* ASSOCIATE request and its success reply.                                  *)

MaxFlowDgram == 2      \* datagrams the relay loop receives in UdpSpec
MaxFlowReply == 2      \* replies sent to clients in UdpSpec

\* Dgram4 with another payload, a second domain name that differs from DgramN's
\* in its first byte only, and the IPv4-mapped IPv6 form of Dgram4's address.
Dgram4b == <<0, 0, 0, ipv4Address, 127, 0, 0, 1, 34, 184, 113>>
DgramN2 == <<0, 0, 0, fqdnAddress, 2, 99, 98, 0, 80, 112>>
Dgram6  == <<0, 0, 0, ipv6Address, 0, 0, 0, 0, 0, 0, 0, 0, 0, 0, 255, 255,
             127, 0, 0, 1, 34, 184, 112>>
\* The datagrams of UdpSpec with their senders: every sample from the first
\* client source, and Dgram4 from the second one as well.
FlowInputs ==
    {<<"192.0.2.1:5000", bs>> : bs \in SampleDgrams \cup {Dgram4b, DgramN2, Dgram6}}
    \cup {<<"192.0.2.2:5000", Dgram4>>}

\* A payload that fills the 65536-byte read buffer of readFromDst.
BigPayload == [i \in 1..BufSize |-> 0]

UdpInit ==
    /\ config = DefaultConfig
    /\ authMethods = New(config)
    /\ rules = DefaultedRules(config)
    /\ allowlist = AllowAll
    /\ pc = "relay" /\ peerIP = "10.0.0.1" /\ connOpen = TRUE /\ peerClosed = FALSE
    /\ readAny = TRUE /\ wfail = FALSE /\ methods = <<>>
    /\ wire = <<Frame("method", <<socks5Version, NoAuth>>),
                ReplyFrame(successReply, [present |-> TRUE, IP |-> BindIP, Port |-> UdpPort])>>
    /\ auth = [state |-> "ok", sel |-> NoAuth, ctx |-> [Method |-> NoAuth, Payload |-> <<>>]]
    /\ request = [cmd |-> AssociateCommand, err |-> "none", dest |-> Dest4,
                  AuthContext |-> [Method |-> NoAuth, Payload |-> <<>>],
                  RemoteAddr |-> "10.0.0.1"]
    /\ dispatched = "associate"
    /\ BindIdle
    /\ udp = "open" /\ drain = "running" /\ peers = <<>> /\ flows = <<>>
    /\ rtask = <<>> /\ nDgram = 0 /\ sent = <<>>
    /\ rcvd = <<>> /\ heap = <<>> /\ held = NoneHeld
    /\ CodecIdle

UdpNext ==
    \/ \E in \in FlowInputs, dialOK, writeOK \in BOOLEAN :
          RecvDatagramN(MaxFlowDgram, in[1], in[2], dialOK, writeOK)
    \/ UdpReadError
    \/ \E id \in 1..MaxFlowDgram, payload \in Payloads, sendOK \in BOOLEAN :
          RemoteReplyN(MaxFlowReply, id, payload, sendOK)
    \/ \E id \in 1..MaxFlowDgram : RemoteReplyN(MaxFlowReply, id, BigPayload, TRUE)
    \/ \E id \in 1..MaxFlowDgram : ReadFromDstClosed(id)
    \/ \E id \in 1..MaxFlowDgram : ReadFromDstError(id)

UdpSpec == UdpInit /\ [][UdpNext]_vars

\* go readFromDst(...): the Go scheduler runs a reverse-path task whose Read
\* has returned because its socket was closed. Nothing obliges clients or
\* remote endpoints to send, or a socket to fail.
UdpFairSpec == UdpSpec /\ WF_vars(\E id \in 1..MaxFlowDgram : ReadFromDstClosed(id))

---------------------------------------------------------------------------
(* CodecSpec: the codec applied to bounded inputs *)

ByteVals == {0, 1, 255}

\* Well-formed arguments of NewDatagram: FRAG is 0 by construction, the port is
\* non-zero and DATA is non-empty.
Addr4  == {Mark(4, f, p, v)  : f \in {0, 1}, p \in 1..4,  v \in ByteVals}
Addr16 == {Mark(16, f, p, v) : f \in {0, 1}, p \in {1, 16}, v \in ByteVals}
Names  == UNION {[1..n -> {0, 97}] : n \in 1..MaxName}
Ports  == {<<h, l>> : h \in {0, 1}, l \in {0, 80}} \ {<<0, 0>>}
Datas  == UNION {[1..n -> {0, 7}] : n \in 1..MaxData}

CodecArgs ==
    {[aTyp |-> ipv4Address, dstAddr |-> a, dstPort |-> p, data |-> x] :
        a \in Addr4, p \in Ports, x \in Datas}
    \cup {[aTyp |-> ipv6Address, dstAddr |-> a, dstPort |-> p, data |-> x] :
        a \in Addr16, p \in Ports, x \in Datas}
    \cup {[aTyp |-> fqdnAddress, dstAddr |-> a, dstPort |-> p, data |-> x] :
        a \in Names, p \in Ports, x \in Datas}

\* Raw buffers handed to the parser: a 4-byte header followed by a tail of up to
\* 16 + 2 + MaxData bytes, and every prefix of a header.
Headers == {<<r, r, f, t>> : r \in {0, 9}, f \in {0, 1}, t \in {0, 1, 3, 4, 5}}
Tails   == {<<>>} \cup
           {Mark(n, f, p, v) : n \in 1..(18 + MaxData), f \in {0, 1},
                               p \in 1..(18 + MaxData), v \in {0, 1, 2}}
RawBufs == {h \o t : h \in Headers, t \in Tails}
           \cup {SubSeq(h, 1, k) : h \in Headers, k \in 0..3}

CodecInit ==
    /\ config = <<>> /\ authMethods = <<>> /\ rules = <<>> /\ allowlist = AllowAll
    /\ ConnIdle /\ BindIdle /\ UdpIdle
    /\ cdgram = <<>> /\ cres = <<>>
    /\ \/ cstage = "args" /\ cargs \in CodecArgs /\ cbuf = <<>>
       \/ cstage = "raw"  /\ cargs = <<>> /\ cbuf \in RawBufs

\* datagram = NewDatagram(ctx, memCreater, atyp, dstAddr, dstPort, data)
CodecBuild ==
    /\ cstage = "args"
    /\ cdgram' = NewDatagram(cargs.aTyp, cargs.dstAddr, cargs.dstPort, cargs.data)
    /\ cstage' = "built"
    /\ UNCHANGED <<cargs, cbuf, cres>>

\* n = datagram.toBytes(ctx, bs); the bytes sent are bs[:n]
CodecEncode ==
    /\ cstage = "built"
    /\ toBytes(cdgram, BufSize).n > 0
    /\ cbuf' = toBytes(cdgram, BufSize).bytes
    /\ cstage' = "encoded"
    /\ UNCHANGED <<cargs, cdgram, cres>>

\* datagram, err = NewDatagramFromByte(ctx, memCreater, bs[:n])
CodecParse ==
    /\ cstage \in {"encoded", "raw"}
    /\ cres' = NewDatagramFromByte(cbuf)
    /\ cstage' = IF cstage = "encoded" THEN "reparsed" ELSE "parsed"
    /\ UNCHANGED <<cargs, cdgram, cbuf>>

CodecNext ==
    /\ (CodecBuild \/ CodecEncode \/ CodecParse)
    /\ UNCHANGED <<serverVars, connVars, bindVars, udpVars>>

CodecSpec == CodecInit /\ [][CodecNext]_vars

---------------------------------------------------------------------------
(* Claims about the codec *)

\* C9 (as claimed): for every datagram d built by NewDatagram with FRAG=0, a
\* non-zero port, non-empty DATA and any of the three address types, parsing
\* toBytes(d) with NewDatagramFromByte yields a datagram equal to d in RSV, FRAG,
\* ATYP, DstAddr, DstPort and DATA.
C9_RoundTrip ==
    cstage = "reparsed" =>
        /\ cres.ok
        /\ cres.d.Rsv = cdgram.Rsv
        /\ cres.d.Frag = cdgram.Frag
        /\ cres.d.ATyp = cdgram.ATyp
        /\ cres.d.DstAddr = cdgram.DstAddr
        /\ cres.d.DstPort = cdgram.DstPort
        /\ cres.d.Data = cdgram.Data

\* The parse policy as the claim words it, read off the buffer alone.
DeclaredAddrLen(bs) ==
    CASE bs[4] = ipv4Address -> 4
      [] bs[4] = ipv6Address -> 16
      [] bs[4] = fqdnAddress -> IF Len(bs) < 5 THEN 1 ELSE 1 + bs[5]

PolicyRejects(bs) ==
    \/ Len(bs) < 4
    \/ /\ Len(bs) >= 4
       /\ \/ bs[3] # 0
          \/ bs[4] \notin {ipv4Address, fqdnAddress, ipv6Address}
          \/ /\ bs[4] \in {ipv4Address, fqdnAddress, ipv6Address}
             /\ \/ bs[4] = fqdnAddress /\ Len(bs) >= 5 /\ bs[5] = 0
                \/ Len(bs) < 4 + DeclaredAddrLen(bs) + 2
                \/ /\ Len(bs) >= 4 + DeclaredAddrLen(bs) + 2
                   /\ \/ /\ bs[4 + DeclaredAddrLen(bs) + 1] = 0
                         /\ bs[4 + DeclaredAddrLen(bs) + 2] = 0
                      \/ Len(bs) = 4 + DeclaredAddrLen(bs) + 2

\* C10: NewDatagramFromByte rejects a buffer exactly when it is shorter than 4
\* bytes, or FRAG is non-zero, or ATYP is not one of {1,3,4}, or ATYP is FQDN with
\* length byte 0, or the buffer is too short for the declared address and the
\* 2-byte port, or both port bytes are zero, or DATA is empty; every other buffer
\* is accepted, whatever its RSV bytes are.
C10_ParsePolicy ==
    cstage = "parsed" => (cres.ok <=> ~PolicyRejects(cbuf))

\* C10 witnesses: an accepted buffer with non-zero RSV, and a rejected buffer of
\* exactly four bytes (the boundary of the first length check).
C10_Witness ==
    /\ cstage = "parsed" /\ cres.ok
    /\ cbuf[1] # 0 /\ cbuf[4] = fqdnAddress /\ cbuf[5] = 2

---------------------------------------------------------------------------
(* Claims about the control connection *)

\* The kinds of the frames on the control connection, in order.
Kinds == [i \in 1..Len(wire) |-> wire[i].kind]

\* The frames of one kind, in order.
FramesOf(kind) == SelectSeq(wire, LAMBDA f : f.kind = kind)

\* The first method of ms, in the order received, whose code is registered in
\* reg; 0xFF if there is none.
RECURSIVE FirstRegistered(_, _)
FirstRegistered(ms, reg) ==
    IF ms = <<>> THEN 255
    ELSE IF Head(ms) \in DOMAIN reg THEN Head(ms)
    ELSE FirstRegistered(Tail(ms), reg)

\* C1: for every client method list M (the empty list included) and every
\* registry S, the handshake the server runs is that of the first method of M, in
\* the order received, that is in S, and the method-selection reply is
\* [5, that code]; if no method of M is in S the reply is [5, 0xFF] and the
\* connection is aborted: no sub-negotiation, no request, no handler.
C1_MethodNegotiation ==
    /\ (pc \in {"subneg", "authret"} /\ auth.sel # EOF) =>
          LET m == FirstRegistered(methods, authMethods) IN
          /\ auth.sel = m
          /\ ~wfail => wire[1] = Frame("method", <<5, m>>)
          /\ FramesOf("method") \in {<<>>, <<Frame("method", <<5, m>>)>>}
          /\ pc = "subneg" => m = 2
          /\ auth.state = "ok" => auth.ctx.Method = m
          /\ m = 255 => auth.state = "failed" /\ FramesOf("status") = <<>>
    /\ (auth.state # "none" /\ auth.sel = 255) =>
          /\ pc \in {"authret", "closed"}
          /\ auth.state = "failed"
          /\ request = NoRequest /\ dispatched = "none"

\* C1 witness: the client offered [2, 0] to a server that registers both 0 and
\* 2, and the user/password handshake was started after [5, 2].
C1_Witness ==
    /\ pc = "subneg" /\ methods = <<2, 0>>
    /\ DOMAIN authMethods = {0, 2}
    /\ wire = <<Frame("method", <<5, 2>>)>>

\* The connection has reached the relay phase of BIND or ASSOCIATE.
ReachedRelay ==
    \/ dispatched = "bind" /\ copy[1] # "none"
    \/ dispatched = "associate" /\ pc = "relay"

\* The frames that precede the relay: the method selection, the sub-negotiation
\* status if user/password was chosen, one reply (ASSOCIATE) or two (BIND).
ExpectedPrefix ==
    <<"method">>
    \o (IF auth.sel = 2 THEN <<"status">> ELSE <<>>)
    \o (IF dispatched = "bind" THEN <<"reply", "reply">> ELSE <<"reply">>)

\* C2: on a connection that has reached the relay phase the control connection
\* carries exactly one method-selection reply, then the sub-negotiation status if
\* user/password was chosen, then exactly one reply frame (ASSOCIATE) or two
\* (BIND), in that order, and every relayed chunk comes after the last of them.
C2_ReplyOrdering ==
    ReachedRelay =>
        LET n == Len(ExpectedPrefix) IN
        /\ Len(wire) >= n
        /\ SubSeq(Kinds, 1, n) = ExpectedPrefix
        /\ \A i \in (n + 1)..Len(wire) : wire[i].kind = "relay"
        /\ wire[1].bytes = <<5, auth.sel>>
        /\ auth.sel = 2 => wire[2].bytes = <<1, 0>>
        /\ \A i \in 1..n : wire[i].kind = "reply" => wire[i].bytes[2] = 0

\* C2 witness: a BIND after user/password authentication with a relayed chunk
\* on the control connection after the two replies.
C2_Witness ==
    /\ dispatched = "bind" /\ auth.sel = 2
    /\ Kinds = <<"method", "status", "reply", "reply", "relay">>

\* C3 (as claimed): once the drain task of an association has returned (the TCP
\* control connection was closed), eventually the relay UDP socket is closed and
\* the outbound socket of every flow of the flow table is closed, whether or not
\* another datagram arrives.
C3_Teardown ==
    (drain = "done") ~>
        (udp = "closed" /\ \A k \in DOMAIN peers : ~flows[peers[k]].open)

\* The credential store of the registered user/password authenticator accepts
\* the pair (u, p).
StoreAccepts(u, p) ==
    LET st == authMethods[2].Credentials IN u \in DOMAIN st /\ st[u] = p

\* A version-1 sub-negotiation request was read after [5, 2] was written.
SubnegRead == auth.state \in {"ok", "failed"} /\ auth.sel = 2 /\ "user" \in DOMAIN auth

\* C4: after [5, 2] and a version-1 sub-negotiation request (u, p), the server
\* writes [1, 0] and yields AuthContext(method 2, {Username: u}) if and only if
\* the credential store accepts (u, p); otherwise it writes [1, 1], the
\* connection fails and no request is read from it.
C4_UserPassOutcome ==
    SubnegRead =>
        LET acc == StoreAccepts(auth.user, auth.pass) IN
        /\ wire[1] = Frame("method", <<5, 2>>)
        /\ FramesOf("status") \in
              {<<>>, <<Frame("status", <<1, IF acc THEN 0 ELSE 1>>)>>}
        /\ FramesOf("status") # <<>> => wire[2].kind = "status"
        /\ (pc = "authret" /\ ~wfail) => FramesOf("status") # <<>>
        /\ auth.state = "ok" <=> (acc /\ FramesOf("status") # <<>>)
        /\ auth.state = "ok" =>
              auth.ctx = [Method |-> 2, Payload |-> [Username |-> auth.user]]
        /\ ~acc =>
              /\ auth.state = "failed"
              /\ pc \in {"authret", "closed"}
              /\ request = NoRequest /\ dispatched = "none"

\* C4 witness: a user the store knows, with a wrong password, was answered
\* [1, 1] and the connection was closed.
C4_Witness ==
    /\ SubnegRead /\ auth.user = UserA /\ auth.pass = <<>>
    /\ wire = <<Frame("method", <<5, 2>>), Frame("status", <<1, 1>>)>>
    /\ pc = "closed"

\* C5: a request is read and a command handler is dispatched only on a
\* connection whose authentication completed successfully with a registered
\* method; when that method is user/password (in particular when the registry
\* holds nothing else) the credential store validated the supplied pair.
C5_NoBypass ==
    (request # NoRequest \/ dispatched # "none"
        \/ pc \notin {"idle", "accepted", "version", "methods", "subneg", "authret", "closed"}) =>
        /\ auth.state = "ok"
        /\ auth.sel \in DOMAIN authMethods
        /\ auth.ctx.Method = auth.sel
        /\ DOMAIN authMethods = {2} => auth.sel = 2
        /\ auth.sel = 2 => StoreAccepts(auth.user, auth.pass)

\* C5 witness: a handler was dispatched on a server that registers user/password
\* only.
C5_Witness ==
    /\ DOMAIN authMethods = {2} /\ dispatched = "bind"
    /\ auth.user = UserA /\ auth.pass = PassX

\* C6: when the request parser fails with the address-type-not-supported error
\* the server writes exactly one reply frame, [5, 8, 0, 1, 0,0,0,0, 0,0], then
\* closes the connection, and no command handler is dispatched.
C6_AddrTypeNotSupported ==
    request.err = "errUnrecognizedAddrType" =>
        /\ pc = "closed" /\ ~connOpen /\ dispatched = "none"
        /\ FramesOf("reply") =
              IF wfail THEN <<>>
              ELSE <<Frame("reply", <<5, 8, 0, 1, 0, 0, 0, 0, 0, 0>>)>>
        /\ ~wfail => wire[Len(wire)].kind = "reply"

\* C6 witness: the reply with REP=8 is the last frame of a closed connection.
C6_Witness ==
    /\ request.err = "errUnrecognizedAddrType" /\ pc = "closed"
    /\ wire = <<Frame("method", <<5, 0>>),
                Frame("reply", <<5, 8, 0, 1, 0, 0, 0, 0, 0, 0>>)>>

\* The allowlist rejects the peer of the connection.
PeerRejected == peerIP # "none" /\ ~allowlist.all /\ peerIP \notin allowlist.ips

\* C7: the allowlist is evaluated on the peer IP before the version byte is
\* read; a rejected connection is closed with no byte read from it and no byte
\* written to it, and never reaches the version check, authentication or
\* request parsing.
C7_Allowlist ==
    /\ pc = "accepted" => ~readAny /\ wire = <<>>
    /\ PeerRejected =>
          /\ pc \in {"accepted", "closed"}
          /\ ~readAny /\ wire = <<>>
          /\ auth = NoAuthResult /\ methods = <<>>
          /\ request = NoRequest /\ dispatched = "none"

\* C7 witness: a peer outside the list was closed.
C7_Witness ==
    /\ pc = "closed" /\ ~connOpen /\ peerIP = "10.0.0.2"
    /\ allowlist = [all |-> FALSE, ips |-> {"10.0.0.1"}]

\* The success replies (REP=0) on the control connection, in order.
SuccessReplies == SelectSeq(wire, LAMBDA f : f.kind = "reply" /\ f.bytes[2] = 0)

\* C8: in BIND the first success reply carries {bindIP, listener port} and is
\* written after the listener is open and before an inbound connection is
\* accepted; the second carries the accepted connection's remote IP and port and
\* is written after exactly one inbound connection was accepted; the two copy
\* tasks start only after the second reply was written.
C8_BindTwoStage ==
    dispatched = "bind" =>
        LET r == SuccessReplies IN
        /\ Len(r) <= 2 /\ Len(accepted) <= 1
        /\ Len(r) >= 1 =>
              /\ listener # "none"
              /\ r[1].bytes = <<5, 0, 0, 1, 127, 0, 0, 1, lport \div 256, lport % 256>>
        /\ accepted # <<>> => Len(r) >= 1
        /\ Len(r) = 2 =>
              /\ Len(accepted) = 1
              /\ r[2].bytes = <<5, 0, 0, 1>> \o accepted[1].IP
                                \o <<accepted[1].Port \div 256, accepted[1].Port % 256>>
        /\ (copy[1] # "none" \/ copy[2] # "none") => Len(r) = 2

\* C8 witness: both replies were written and the copy tasks run.
C8_Witness ==
    /\ dispatched = "bind" /\ Len(SuccessReplies) = 2 /\ Len(accepted) = 1
    /\ copy = [t \in 1..2 |-> "running"]

---------------------------------------------------------------------------
(* Claims about the UDP relay (UdpSpec) *)

\* The entry of rcvd for the datagram that created flow id: the only one that
\* was handed to the flow by a lookup that missed and a dial that succeeded.
Creator(id) ==
    rcvd[CHOOSE i \in 1..Len(rcvd) : rcvd[i].flow = id /\ rcvd[i].dialed]

\* The destination a datagram carries on the wire (RFC 1928 section 7): the
\* host in DST.ADDR, for a domain name the bytes after the length byte, and the
\* port in DST.PORT. An IPv4-mapped IPv6 address names its IPv4 host.
WireDest(bs) ==
    LET aTyp == bs[4] IN
    CASE aTyp = ipv4Address ->
           <<(<<"ip", IPString(SubSeq(bs, 5, 8))>>), bs[9] * 256 + bs[10]>>
      [] aTyp = ipv6Address ->
           <<(<<"ip", IPString(SubSeq(bs, 5, 20))>>), bs[21] * 256 + bs[22]>>
      [] aTyp = fqdnAddress ->
           <<(<<"name", SubSeq(bs, 6, 5 + bs[5])>>),
             bs[6 + bs[5]] * 256 + bs[7 + bs[5]]>>

\* C11: the outbound socket of a flow is dialed to exactly the destination
\* carried in DST.ADDR and DST.PORT of the datagram that created the flow, for
\* the three address types; for a domain name the host dialed is the full name
\* that follows the length byte.
C11_DialTarget ==
    \A id \in FlowIds : flows[id].target = WireDest(Creator(id).bytes)

\* The ATYP, DST.ADDR and DST.PORT bytes of a datagram on the wire.
WireAddrBytes(bs) ==
    LET aTyp == bs[4]
        addrLen == CASE aTyp = ipv4Address -> 4
                     [] aTyp = ipv6Address -> 16
                     [] aTyp = fqdnAddress -> 1 + bs[5]
    IN SubSeq(bs, 4, 4 + addrLen + 2)

\* The datagrams sent to clients by the reverse-path task of flow id, in order.
SentBy(id) == SelectSeq(sent, LAMBDA s : s.by = id)

\* C12: every datagram sent to a client for a flow has RSV=0x0000 and FRAG=0,
\* carries the ATYP, DST.ADDR and DST.PORT bytes of the inbound datagram that
\* created the flow (for a domain name the length byte and the name), carries as
\* DATA exactly the payload read from the flow's outbound socket, and is sent to
\* the source address of the creating datagram and to no other address.
C12_ReversePath ==
    \A id \in FlowIds :
        LET s == SentBy(id) IN
        /\ Len(s) <= Len(flows[id].rd)
        /\ \A j \in 1..Len(s) :
              /\ s[j].bytes = <<0, 0, 0>> \o WireAddrBytes(Creator(id).bytes)
                                 \o flows[id].rd[j]
              /\ s[j].to = Creator(id).from

\* C12 witness: a reply was sent for a flow of the second client source, and
\* then one for a flow created by a domain-name datagram.
C12_Witness ==
    /\ Len(sent) = 2
    /\ sent[1].to = "192.0.2.2:5000"
    /\ sent[1].bytes = <<0, 0, 0, ipv4Address, 127, 0, 0, 1, 34, 184>>
    /\ sent[2].to = "192.0.2.1:5000"
    /\ sent[2].bytes = <<0, 0, 0, fqdnAddress, 2, 97, 98, 0, 80, 111>>

\* The datagrams of rcvd that the parser accepted: those given to a flow or
\* dropped after a failed dial.
Parsed(e) == e.flow # 0 \/ e.dialed

\* The (clientSrc, remoteDst) pair of a received datagram: its source address
\* and its ATYP, DST.ADDR and DST.PORT bytes.
PairOf(e) == <<e.from, WireAddrBytes(e.bytes)>>

\* Flow id was removed from the table by one of the datagrams i..j-1 of rcvd.
RemovedBetween(id, i, j) ==
    \E k \in i..(j - 1) : rcvd[k].flow = id /\ ~rcvd[k].wrote

\* C13: two inbound datagrams are served by the same flow iff they have the same
\* client source and the same destination (ATYP, DST.ADDR, DST.PORT); a datagram
\* whose pair has a flow in the table triggers no dial; every flow of the table
\* has exactly one outbound socket and exactly one reverse-path task.
C13_OneFlowPerPair ==
    /\ \A i, j \in 1..Len(rcvd) :
          (i < j /\ rcvd[i].flow # 0 /\ Parsed(rcvd[j])) =>
             /\ rcvd[j].flow = rcvd[i].flow => PairOf(rcvd[j]) = PairOf(rcvd[i])
             /\ (PairOf(rcvd[j]) = PairOf(rcvd[i])
                   /\ ~RemovedBetween(rcvd[i].flow, i, j)) =>
                   (rcvd[j].flow = rcvd[i].flow /\ ~rcvd[j].dialed)
    /\ Len(rtask) = Len(flows)
    /\ \A k \in DOMAIN peers : peers[k] \in FlowIds
    /\ \A k1, k2 \in DOMAIN peers : peers[k1] = peers[k2] => k1 = k2

\* The distinct (clientSrc, remoteDst) pairs observed so far.
ObservedPairs == {PairOf(rcvd[i]) : i \in {k \in 1..Len(rcvd) : Parsed(rcvd[k])}}

\* The flows removed from the table on a write failure so far.
RemovedOnWriteFailure ==
    Cardinality({i \in 1..Len(rcvd) : rcvd[i].flow # 0 /\ ~rcvd[i].wrote})

WriteFailed(id) ==
    /\ Len(rcvd') = Len(rcvd) + 1
    /\ rcvd'[Len(rcvd')].flow = id
    /\ ~rcvd'[Len(rcvd')].wrote

\* C15: when writing a datagram's DATA to a flow's outbound socket fails, that
\* flow's socket is closed and its entry is removed from the flow table, every
\* other flow's entry, socket and reverse-path task are left as they were, and
\* the relay loop goes on: it has not returned and the relay socket is open.
C15_FailureIsolation ==
    [][\A id \in 1..(Len(flows) + 1) :
          WriteFailed(id) =>
             /\ ~flows'[id].open
             /\ \A k \in DOMAIN peers' : peers'[k] # id
             /\ \A k \in DOMAIN peers :
                   peers[k] # id => (k \in DOMAIN peers' /\ peers'[k] = peers[k])
             /\ \A i \in DOMAIN flows : i # id => flows'[i] = flows[i]
             /\ \A i \in DOMAIN rtask : rtask'[i] = rtask[i]
             /\ pc' = "relay" /\ udp' = "open" /\ connOpen' = connOpen]_vars

\* C15 witness: the write to the second flow failed while the first flow was in
\* the table; the first flow is still there and open, the loop still runs.
C15_Witness ==
    /\ Len(rcvd) = 2 /\ rcvd[1].flow = 1 /\ rcvd[1].wrote
    /\ rcvd[2].flow = 2 /\ ~rcvd[2].wrote
    /\ flows[1].open /\ ~flows[2].open
    /\ {peers[k] : k \in DOMAIN peers} = {1}
    /\ pc = "relay" /\ udp = "open"

\* The flows that have an entry in the flow table.
InTable == {peers[k] : k \in DOMAIN peers}

\* C16: whenever the reverse-path task of a flow has exited (read error on the
\* outbound socket, a reply that does not fit the 65536-byte send buffer, or a
\* failed send to the client), the flow is released: its outbound socket is
\* closed and its entry is no longer in the flow table.
C16_ExitReleasesFlow ==
    \A id \in FlowIds :
        rtask[id] = "done" => (~flows[id].open /\ id \notin InTable)

\* C17: every buffer obtained from the allocator on the UDP path, for a parsed
\* inbound datagram or for a reply datagram, has been freed exactly once when
\* its owner finishes the iteration or leaves its loop (normal iteration, parse
\* error, socket read error, oversize reply, send failure, dial failure): it is
\* neither leaked nor freed twice.
C17_AllocatorBalance ==
    \A b \in DOMAIN heap : heap[b] = 1

\* C17 witness: the relay loop dropped a datagram after a failed dial, served
\* another one and returned on a read error; the reverse-path task sent one
\* reply and returned while holding the buffer of a second one.
C17_Witness ==
    /\ pc = "closed" /\ Len(rcvd) = 2
    /\ rcvd[1].flow = 0 /\ rcvd[1].dialed
    /\ rcvd[2].flow = 1 /\ rcvd[2].wrote
    /\ rtask = <<"done">> /\ Len(sent) = 1
    /\ Len(heap) = 4

\* C18: the flow table and the fields of a flow are written by the relay-loop
\* task only; a reverse-path task writes no field of its flow, so no field is
\* written by one task while another task reads or writes it.
C18_SingleWriter ==
    \A id \in FlowIds : flows[id].writers \subseteq {"readFromSrc"}

\* The DATA field of a datagram on the wire.
WireData(bs) == SubSeq(bs, 3 + Len(WireAddrBytes(bs)) + 1, Len(bs))

\* The DATA of the datagrams of a log (rcvd or sent), in the order of the log.
RECURSIVE DataOf(_)
DataOf(log) ==
    IF log = <<>> THEN <<>>
    ELSE <<WireData(Head(log).bytes)>> \o DataOf(Tail(log))

\* C19: for each flow, the payloads written to the outbound socket are the DATA
\* of the datagrams the relay loop received for it and wrote, in the order
\* received, and the replies sent to the client carry the payloads read from
\* the outbound socket in the order read; none is duplicated or reordered.
C19_InOrder ==
    \A id \in FlowIds :
        /\ flows[id].out =
              DataOf(SelectSeq(rcvd, LAMBDA e : e.flow = id /\ e.wrote))
        /\ Len(SentBy(id)) <= Len(flows[id].rd)
        /\ DataOf(SentBy(id)) = SubSeq(flows[id].rd, 1, Len(SentBy(id)))

\* C19 witness: one flow forwarded two datagrams with different payloads and
\* sent two replies with different payloads.
C19_Witness ==
    /\ Len(flows) = 1
    /\ flows[1].out = <<<<113>>, <<112>>>>
    /\ DataOf(sent) = <<<<111>>, <<>>>>

---------------------------------------------------------------------------
(* Claims about the BIND relay (Spec) *)

\* The BIND handler has started its two copy tasks.
BindRelayStarted == dispatched = "bind" /\ copy[1] # "none" /\ copy[2] # "none"

\* C20: after starting the two copy tasks the BIND handler has returned exactly
\* when a task result it received is a non-nil error or it has received the
\* results of both tasks, not before; it receives nothing after a non-nil
\* error; and when it has returned, the accepted connection, the ephemeral
\* listener and the control connection are closed.
C20_BindJoin ==
    BindRelayStarted =>
        /\ pc \in {"join", "closed"}
        /\ Len(joined) <= 2
        /\ \A i \in 1..Len(joined) : joined[i] # Nil => i = Len(joined)
        /\ pc = "closed" <=>
              (joined # <<>> /\ (joined[Len(joined)] # Nil \/ Len(joined) = 2))
        /\ pc = "closed" =>
              (tcpConn = "closed" /\ listener = "closed" /\ ~connOpen)

\* C20 witness: the handler returned on the error of the first task to finish
\* while the other task was still copying.
C20_Witness ==
    /\ BindRelayStarted /\ pc = "closed"
    /\ joined = <<"error">>
    /\ \E t \in 1..2 : copy[t] = "running"
    /\ tcpConn = "closed" /\ listener = "closed" /\ ~connOpen

---------------------------------------------------------------------------
(* Claims about the construction of the server (Spec) *)

\* The registry a server built by New holds when AuthMethods is empty: exactly
\* user/password (0x02), over the configured store, if a credential store is
\* configured and exactly no-auth (0x00) otherwise.
RegistryDefaulted ==
    /\ config.Credentials.present =>
          /\ DOMAIN authMethods = {UserPassAuth}
          /\ authMethods[UserPassAuth] = UserPassAuthenticator(config.Credentials.store)
    /\ ~config.Credentials.present =>
          /\ DOMAIN authMethods = {NoAuth}
          /\ authMethods[NoAuth] = NoAuthAuthenticator

C22_CredentialsEnableUserPass ==
    config.Credentials.present =>
        /\ UserPassAuth \in DOMAIN authMethods
        /\ authMethods[UserPassAuth].Credentials = config.Credentials.store

---------------------------------------------------------------------------
(* Claims about the rule set and the allowlist (Spec) *)

\* What a PermitCommand rule set answers for a command: the Enable flag of
\* CONNECT, BIND or ASSOCIATE, and false for any other command.
FlagOf(p, cmd) ==
    \/ cmd = ConnectCommand /\ p.EnableConnect
    \/ cmd = BindCommand /\ p.EnableBind
    \/ cmd = AssociateCommand /\ p.EnableAssociate

\* The request was parsed and handleRequest has finished with it.
RequestHandled == request.err = "none" /\ request.cmd # 0 /\ pc # "handle"

\* The reply frame with REP=0x02, the zero IPv4 address and the zero port.
RuleFailureFrame == Frame("reply", <<5, 2, 0, 1, 0, 0, 0, 0, 0, 0>>)

\* C23: when the rule set returns false for a request, the server writes
\* exactly one reply frame, with REP=0x02 and the zero IPv4 address and port,
\* closes the connection and dispatches no command handler: no listener, no
\* outbound connection and no UDP socket is opened. (A domain name that does
\* not resolve is answered with REP=0x04 before the rule set is asked.)
C23_RuleDenial ==
    (RequestHandled /\ ~FlagOf(rules, request.cmd)) =>
        /\ pc = "closed" /\ ~connOpen /\ dispatched = "none"
        /\ listener = "none" /\ tcpConn = "none" /\ udp = "none" /\ flows = <<>>
        /\ Len(FramesOf("reply")) <= 1
        /\ ~wfail => Len(FramesOf("reply")) = 1
        /\ FramesOf("reply") # <<>> =>
              /\ wire[Len(wire)].kind = "reply"
              /\ \/ FramesOf("reply")[1] = RuleFailureFrame
                 \/ /\ request.dest.atyp = fqdnAddress
                    /\ FramesOf("reply")[1].bytes[2] = hostUnreachable

\* C23 witness: a BIND request for an IPv4 destination was denied by a rule set
\* that permits CONNECT only; the REP=0x02 frame is the last one written.
C23_Witness ==
    /\ RequestHandled /\ request.cmd = BindCommand
    /\ request.dest.atyp = ipv4Address
    /\ rules = PermitCommand(TRUE, FALSE, FALSE)
    /\ pc = "closed" /\ wire[Len(wire)] = RuleFailureFrame

\* Command codes: the three commands, and codes on both sides of them up to the
\* largest byte; and two contexts.
CommandCodes == {0, ConnectCommand, BindCommand, AssociateCommand, 4, 9, 255}
Contexts == {Background, "context.WithValue"}

\* The commands a rule set allows.
Allowed(p) == {cmd \in CommandCodes : Allow(p, Background, cmd).ok}

\* C24: PermitCommand.Allow returns for CONNECT, BIND and ASSOCIATE exactly the
\* matching Enable flag and false for every other command code, whatever the
\* flags are, and returns the context unchanged; PermitAll, the rule set New
\* installs when Config.Rules is nil, allows exactly the three commands and
\* PermitNone allows none; a handler is dispatched only for an allowed command.
C24_PermitCommand ==
    /\ \A ctx \in Contexts, cmd \in CommandCodes :
          Allow(rules, ctx, cmd) = [ctx |-> ctx, ok |-> FlagOf(rules, cmd)]
    /\ ~config.Rules.present => rules = PermitAll
    /\ rules = PermitAll =>
          Allowed(rules) = {ConnectCommand, BindCommand, AssociateCommand}
    /\ rules = PermitNone => Allowed(rules) = {}
    /\ dispatched # "none" => FlagOf(rules, request.cmd)

\* C24 witness: ASSOCIATE was denied by a rule set that enables BIND only.
C24_Witness ==
    /\ RequestHandled /\ request.cmd = AssociateCommand
    /\ rules = PermitCommand(FALSE, TRUE, FALSE)
    /\ pc = "closed" /\ dispatched = "none"
    /\ wire[Len(wire)] = RuleFailureFrame

\* C25: on a server built by New every peer IP is admitted until SetIPAllowlist
\* is called; a call installs the list it is given in place of whatever was
\* installed before, and from then on a connection is admitted (ServeConn goes
\* on to read the version byte) if and only if its peer IP is an element of the
\* installed list, so an empty list admits no connection.
C25_SetIPAllowlist ==
    [][/\ (pc = "idle" /\ pc' = "accepted") =>
             (allowlist.all <=> allowlist = AllowAll)
       /\ allowlist' # allowlist =>
             (pc = "idle" /\ ~allowlist'.all /\ allowlist'.ips \in Allowlists)
       /\ (pc = "accepted" /\ pc' # "accepted") =>
             /\ pc' \in {"version", "closed"}
             /\ pc' = "version" <=> (allowlist.all \/ peerIP \in allowlist.ips)]_vars

\* C25 witness: after SetIPAllowlist with an empty list a connection was closed
\* before anything was read from it.
C25_Witness ==
    /\ allowlist = [all |-> FALSE, ips |-> {}]
    /\ peerIP = "10.0.0.1" /\ pc = "closed" /\ ~readAny /\ wire = <<>>

---------------------------------------------------------------------------
(* Claims about the BIND handler (Spec) *)

\* C26: when a BIND callback is set it is invoked exactly once per BIND request
\* whose listener was opened, with that listener's address, and the invocation
\* has happened when the first BIND reply is about to be written; it is not
\* invoked when the listener cannot be opened, nor when no callback is set.
C26_BindCallback ==
    /\ dispatched # "bind" => callbacks = NoCallBack
    /\ dispatched = "bind" =>
          /\ Len(callbacks.calls) <= 1
          /\ callbacks.calls # <<>> =>
                (callbacks.set /\ listener # "none"
                   /\ callbacks.calls[1] = ListenAddr(lport))
          /\ (callbacks.set /\ listener # "none") => Len(callbacks.calls) = 1
          /\ pc = "bindReply1" => (listener = "open" /\ FramesOf("reply") = <<>>)
          /\ FramesOf("reply") # <<>> =>
                (callbacks.set => (listener = "none" \/ Len(callbacks.calls) = 1))

\* C26 witness: the callback was invoked with the listener's address and the
\* first reply is not written yet.
C26_Witness ==
    /\ dispatched = "bind" /\ pc = "bindReply1" /\ listener = "open"
    /\ callbacks = [set |-> TRUE, calls |-> <<ListenAddr(ListenPort)>>]
    /\ FramesOf("reply") = <<>>

\* C27: the BIND handler keeps the first connection its listener returns,
\* whatever its remote address and whatever the destination of the request is:
\* no connection is refused for not matching req.DestAddr, and once it holds a
\* connection the handler never accepts a second one.
C27_BindAcceptsAny ==
    dispatched = "bind" =>
        /\ Len(accepted) <= 1
        /\ accepted # <<>> <=> tcpConn # "none"
        /\ accepted # <<>> => pc \notin {"bind", "bindReply1", "accept"}
        /\ pc \in {"bind", "bindReply1", "accept"} => tcpConn = "none"

\* C27 witness: a request for 127.0.0.1 was given the connection of a peer with
\* another address, and the relay between the two has started.
C27_Witness ==
    /\ dispatched = "bind" /\ request.dest = Dest4
    /\ Len(accepted) = 1 /\ accepted[1].IP = <<10, 0, 0, 5>>
    /\ tcpConn = "open" /\ pc = "join"

---------------------------------------------------------------------------
(* Claims about errors (Spec, UdpSpec) *)

\* C28: a connection whose first byte is not 5, or whose version byte, method
\* list or request cannot be read for a reason other than
\* address-type-not-supported, is closed without any reply frame written to
\* it: no reply frame exists before a request was parsed, and a request that
\* fails for another reason closes the connection with none.
C28_SilentClose ==
    /\ request = NoRequest => FramesOf("reply") = <<>>
    /\ (pc = "closed" /\ request = NoRequest) => ~connOpen
    /\ request.err \in {"read", "version"} =>
          /\ FramesOf("reply") = <<>>
          /\ pc = "closed" /\ ~connOpen /\ dispatched = "none"

\* C28 witness: after a no-auth negotiation the request carried version 4; the
\* connection is closed and the method selection is all that was written.
C28_Witness ==
    /\ request.err = "version" /\ pc = "closed" /\ ~connOpen
    /\ wire = <<Frame("method", <<socks5Version, NoAuth>>)>>

\* The relay loop has received a datagram that failed to parse (it is the last
\* one it received).
MalformedReceived == rcvd # <<>> /\ ~Parsed(rcvd[Len(rcvd)])

DialFailedStep ==
    /\ Len(rcvd') = Len(rcvd) + 1
    /\ rcvd'[Len(rcvd')].flow = 0
    /\ rcvd'[Len(rcvd')].dialed

\* C30: when the dial for a datagram of a new pair fails, the datagram is
\* dropped: nothing is written or sent, the flow table and every flow are left
\* as they were, no reverse-path task is spawned, and the relay loop goes on;
\* the next datagram of the same pair triggers a dial again.
C30_DialFailureIsDrop ==
    [][/\ DialFailedStep =>
             (/\ peers' = peers /\ flows' = flows /\ rtask' = rtask /\ sent' = sent
              /\ pc' = "relay" /\ udp' = "open" /\ connOpen' = connOpen)
       /\ \A i \in 1..(Len(rcvd') - 1) :
             (/\ rcvd'[i].flow = 0 /\ rcvd'[i].dialed
              /\ Parsed(rcvd'[i + 1])
              /\ PairOf(rcvd'[i + 1]) = PairOf(rcvd'[i])) => rcvd'[i + 1].dialed]_vars

\* C30 witness: the dial for a datagram of a new pair failed while the flow of
\* another pair was in the table; that flow is untouched and the loop runs.
C30_Witness ==
    /\ Len(rcvd) = 2
    /\ rcvd[1].flow = 1 /\ rcvd[1].wrote
    /\ rcvd[2].flow = 0 /\ rcvd[2].dialed
    /\ flows[1].open /\ Len(flows) = 1 /\ rtask = <<"running">>
    /\ Cardinality(DOMAIN peers) = 1
    /\ pc = "relay" /\ udp = "open"

---------------------------------------------------------------------------
(* Claims about memory and tasks of the UDP relay (UdpSpec, Spec)           *)

\* The allocator buffers that back the address and port bytes of flow id.
BackingOf(id) == {flows[id].addrMem, flows[id].portMem} \ {0}

\* C31: the DST.ADDR and DST.PORT bytes stored in a flow entry are copies made
\* before the datagram's buffer is freed: in no state does a flow entry, and so
\* no reply datagram built from it, reference a buffer that has been returned
\* to the allocator.
C31_OwnedAddressBytes ==
    \A id \in FlowIds : \A b \in BackingOf(id) : heap[b] = 0

\* C31 witness: the buffer of the datagram that created flow 1 has been freed,
\* and afterwards the flow served a second datagram and a reply was built from
\* its address bytes.
C31_Witness ==
    /\ Len(rcvd) = 2 /\ rcvd[1].flow = 1 /\ rcvd[2].flow = 1
    /\ heap[1] = 1
    /\ Len(sent) = 1 /\ sent[1].by = 1
    /\ sent[1].bytes[5] = 127

\* The relay loop of the association has returned: CloseAll has run and the
\* relay UDP socket is closed.
RelayLoopReturned == dispatched = "associate" /\ pc = "closed" /\ udp = "closed"

\* Every reverse-path task spawned during the association has returned.
AllReverseTasksReturned == \A id \in FlowIds : rtask[id] = "done"

\* C32: once the relay loop of an association has returned, every reverse-path
\* task spawned during that association eventually returns; and the
\* reverse-path task of a flow removed on write failure eventually returns
\* after that flow's outbound socket was closed.
C32_DescendantsTerminate ==
    /\ RelayLoopReturned ~> AllReverseTasksReturned
    /\ \A id \in 1..MaxFlowDgram :
          (id \in FlowIds /\ ~flows[id].open /\ id \notin InTable) ~>
              (id \in FlowIds /\ rtask[id] = "done")

\* C32 witness: the association had a flow that was removed on write failure
\* while the loop went on, and a flow that was still in the table when the relay
\* loop returned; both reverse-path tasks have returned.
C32_Witness ==
    /\ RelayLoopReturned
    /\ Len(rcvd) = 2 /\ rcvd[1].flow = 1 /\ ~rcvd[1].wrote
    /\ rcvd[2].flow = 2 /\ rcvd[2].wrote
    /\ InTable = {2}
    /\ rtask = <<"done", "done">>

---------------------------------------------------------------------------
(* Claims about failures of the BIND handler and its join (Spec)            *)

\* The BIND handler went past net.Listen without a listener: Listen failed.
BindListenFailed == dispatched = "bind" /\ pc # "bind" /\ listener = "none"

\* The BIND handler has closed its listener without keeping an accepted
\* connection, after the first reply was written: Accept failed.
BindAcceptFailed ==
    /\ dispatched = "bind" /\ listener = "closed" /\ tcpConn = "none"
    /\ FramesOf("reply") # <<>>

\* The REP=0x01 reply with the nil address, unless the write of it failed.
FailureReplyWritten ==
    IF wfail THEN <<>> ELSE <<Frame("reply", <<5, 1, 0, 1, 0, 0, 0, 0, 0, 0>>)>>

\* C33: if the ephemeral listener cannot be opened, the BIND handler writes
\* exactly one reply, with REP=0x01, and no success reply; if accepting the
\* inbound connection fails after the first success reply was sent, the handler
\* writes one further reply with REP=0x01, starts no copy task, and returns.
C33_BindFailureReplies ==
    /\ BindListenFailed =>
          /\ pc = "closed" /\ ~connOpen
          /\ FramesOf("reply") = FailureReplyWritten
          /\ SuccessReplies = <<>>
          /\ copy = [t \in 1..2 |-> "none"]
    /\ BindAcceptFailed =>
          /\ pc = "closed" /\ ~connOpen
          /\ FramesOf("reply") =
                <<Frame("reply", <<5, 0, 0, 1>> \o BindIP \o Port2(lport))>>
                \o FailureReplyWritten
          /\ copy = [t \in 1..2 |-> "none"]
          /\ errCh = <<>> /\ joined = <<>>

\* C33 witness: Accept failed after the first success reply; the client has
\* received the success reply followed by the REP=0x01 reply.
C33_Witness ==
    /\ BindAcceptFailed /\ ~wfail /\ accepted = <<>>
    /\ Len(FramesOf("reply")) = 2
    /\ FramesOf("reply")[1].bytes[2] = 0
    /\ FramesOf("reply")[2].bytes[2] = 1

\* The copy tasks that have sent their result.
CopyDone == {t \in 1..2 : copy[t] = "done"}

\* C34: the join channel has capacity 2 and each of the two copy tasks of the
\* BIND handler sends exactly one result, so a copy task's send never blocks,
\* also when the handler has already returned after the first error; and both
\* copy tasks terminate once the handler has returned and closed their sockets.
C34_JoinNeverBlocks ==
    /\ [](dispatched = "bind" =>
            /\ \A t \in 1..2 : copy[t] = "running" => CanSend(errCh)
            /\ Len(errCh) + Len(joined) = Cardinality(CopyDone))
    /\ (BindRelayStarted /\ pc = "closed") ~> (CopyDone = {1, 2})

\* C34 witness: the BIND handler returned after the first result, an error; the
\* other copy task has sent its result as well, and nobody will receive it.
C34_Witness ==
    /\ BindRelayStarted /\ pc = "closed"
    /\ joined = <<"error">>
    /\ CopyDone = {1, 2} /\ Len(errCh) = 1

\* C35: when the relay loop of an association returns, every outbound UDP
\* socket that was dialed during the association has been closed by the handler
\* exactly once, either when its flow was removed on write failure or by
\* CloseAll; and at no time is a dialed socket outside the flow table while
\* still open.
C35_NoSocketLeak ==
    /\ RelayLoopReturned =>
          \A id \in FlowIds : ~flows[id].open /\ flows[id].closes = 1
    /\ \A id \in FlowIds :
          /\ id \notin InTable => ~flows[id].open /\ flows[id].closes = 1
          /\ flows[id].open <=> flows[id].closes = 0

\* C35 witness: the relay loop has returned after two sockets were dialed; one
\* was closed when its flow was removed on write failure, the other one, still
\* in the table then, by CloseAll.
C35_Witness ==
    /\ RelayLoopReturned
    /\ Len(rcvd) = 2 /\ rcvd[1].flow = 1 /\ ~rcvd[1].wrote
    /\ rcvd[2].flow = 2 /\ rcvd[2].wrote /\ rcvd[2].from = rcvd[1].from
    /\ WireAddrBytes(rcvd[2].bytes) = WireAddrBytes(rcvd[1].bytes)
    /\ InTable = {2}
    /\ flows[1].closes = 1 /\ flows[2].closes = 1
    /\ rtask = <<"running", "running">>

---------------------------------------------------------------------------
(* Claims about the end of a connection and of an association (Spec)        *)

\* ServeConn has returned.
Returned == pc = "closed"

\* C36: on every return path of ServeConn (allowlist denial, version error,
\* authentication failure, request-parse error, handler error, handler success)
\* the control connection is closed, and nothing is written to it after that.
C36_AlwaysClosed ==
    /\ [](Returned => ~connOpen)
    /\ [][Returned => (Returned' /\ ~connOpen' /\ wire' = wire)]_vars

\* C36 witness: the BIND handler returned nil after both copy tasks reported
\* nil, with relayed bytes written to the control connection before; the
\* connection is closed.
C36_Witness ==
    /\ Returned /\ ~connOpen
    /\ dispatched = "bind" /\ joined = <<Nil, Nil>>
    /\ Kinds = <<"method", "reply", "reply", "relay">>

\* The ASSOCIATE handler went past udpServer.Listen without a socket: the bind
\* of the ephemeral UDP socket failed.
AssocBindFailed == dispatched = "associate" /\ pc # "associate" /\ udp = "none"

\* C37: if the ASSOCIATE handler cannot bind its ephemeral UDP socket, it
\* returns without writing any reply frame to the control connection; the
\* success reply {bindIP, udp port} is written only after the UDP socket is
\* bound; and if writing that reply fails, the UDP socket is closed.
C37_AssociateBindFailure ==
    dispatched = "associate" =>
        /\ AssocBindFailed => (Returned /\ ~connOpen /\ FramesOf("reply") = <<>>)
        /\ FramesOf("reply") # <<>> =>
              /\ udp # "none"
              /\ FramesOf("reply") =
                    <<Frame("reply", <<5, 0, 0, 1>> \o BindIP \o Port2(UdpPort))>>
        /\ wfail => (udp = "closed" /\ Returned /\ FramesOf("reply") = <<>>)

\* C37 witness: the bind of the UDP socket failed; the client got the
\* method-selection reply and the sub-negotiation status, then only the close.
C37_Witness ==
    /\ AssocBindFailed /\ Returned /\ ~connOpen
    /\ Kinds = <<"method", "status">>
    /\ drain = "none"

\* C38 (as claimed): every datagram a reverse-path task sends to the client
\* would be accepted by NewDatagramFromByte, in particular it has non-empty
\* DATA and a non-zero DST.PORT, for every payload the remote endpoint can
\* return, a zero-length UDP payload included.
C38_EmittedDatagramsParse ==
    \A i \in 1..Len(sent) :
        LET r == NewDatagramFromByte(sent[i].bytes) IN
        /\ r.ok
        /\ r.d.Data # <<>>
        /\ ~PortIsZero(r.d.DstPort)

===========================================================================
